---- MODULE Spec2Model ----
(***************************************************************************)
(* Model of the anomaly-detection core of progression-notebook:            *)
(* src/src/core/detection.py (class DetectionEngine) and                   *)
(* src/src/core/models.py (DetectionConfig, SuspicionResult).              *)
(*                                                                         *)
(* Numbers.  Scores, thresholds and suspicion points are Python floats.    *)
(* Every value the model draws is a multiple of half a point, so all of    *)
(* them are kept as integers counted in units of 1/Scale of a point        *)
(* (85.0 is 170, 20.5 is 41, 1.5 points is 3).  Means and ratios are kept  *)
(* as exact fractions and compared by cross-multiplication.  A missing     *)
(* cell is NaN: every ordering comparison with NaN is false, and pandas'   *)
(* mean() and value_counts() skip NaN cells.                               *)
(***************************************************************************)
EXTENDS Integers, Sequences, FiniteSets, TLC

VARIABLES df, config, results, ret, ties, engines, calls, files, now, api

\* the state of one engine and the value the last call returned
engine == <<df, config, results, ret, ties>>

\* the state outside that engine: the engines and calls of concurrent
\* passes, the cache directory and the clock, the arguments of the API helpers
outside == <<engines, calls, files, now, api>>

vars == <<engine, outside>>

(***************************************************************************)
(* Bounds of the model and fixed-point encoding                            *)
(***************************************************************************)
MaxStudents == 3
MaxDays == 5
MaxCells == 6
MaxEngineCells == 4
MaxSessionCells == 2

Scale == 2
NaN == -1

\* NaN, 20.0, 20.5 and 85.0 points
ScoreValues == {NaN, 40, 41, 170}

(***************************************************************************)
(* Arithmetic helpers                                                      *)
(***************************************************************************)
Min(a, b) == IF a <= b THEN a ELSE b

Max(a, b) == IF a >= b THEN a ELSE b

Abs(x) == IF x < 0 THEN -x ELSE x

IsNaN(x) == x = NaN

\* a - b on floats: NaN if either operand is NaN.  Differences of scores are
\* kept as [nan, v] so that a negative difference is not mistaken for NaN.
Diff(a, b) == IF IsNaN(a) \/ IsNaN(b) THEN [nan |-> TRUE, v |-> 0]
              ELSE [nan |-> FALSE, v |-> a - b]

\* floor(num / den) for den > 0
FloorDiv(num, den) == num \div den

\* round-half-to-even of the fraction num/den (den > 0): numpy's rint, used by
\* Series.round(0), and Python's format(x, '.0f')
RoundHalfEven(num, den) ==
    LET f == FloorDiv(num, den)
        r2 == 2 * (num - f * den)
    IN  IF r2 < den THEN f
        ELSE IF r2 > den THEN f + 1
        ELSE IF f % 2 = 0 THEN f ELSE f + 1

\* Series.round(0) of one cell, in whole points (NaN stays NaN)
Round0(x) == IF IsNaN(x) THEN NaN ELSE RoundHalfEven(x, Scale)

RECURSIVE SumSeq(_)
SumSeq(s) == IF s = <<>> THEN 0 ELSE Head(s) + SumSeq(Tail(s))

\* Python slice s[lo:hi] for 0 <= lo, 0 <= hi (0-based, hi exclusive)
Slice(s, lo, hi) ==
    LET h == Min(hi, Len(s))
    IN  IF lo >= h THEN <<>> ELSE SubSeq(s, lo + 1, h)

\* the first n elements, s[:n]
Take(s, n) == Slice(s, 0, n)

Range(s) == {s[i] : i \in 1..Len(s)}

(***************************************************************************)
(* Data model: src/src/core/models.py                                      *)
(***************************************************************************)
COPIEUR == "copieur"
PIC_ISOLE == "pic_isole"
MONTAGNES_RUSSES == "montagnes_russes"
COPIE_COLLECTIVE == "copie_collective"

\* DetectionConfig(): the default thresholds
DetectionConfig ==
    [copieur_tolerance |-> 1 * Scale,
     copieur_min_days |-> 4,
     copieur_min_ratio |-> [num |-> 2, den |-> 5],
     pic_seuil_haut |-> 70 * Scale,
     pic_seuil_bas |-> 30 * Scale,
     pic_fenetre |-> 2,
     montagne_seuil_variation |-> 30 * Scale,
     montagne_min_alternances |-> 3,
     collectif_tolerance |-> 0,
     collectif_min_eleves |-> 3,
     collectif_min_jours |-> 2]

SuspicionResult(student, type, score, details, description) ==
    [student_id |-> student,
     suspicion_type |-> type,
     score |-> score,
     details |-> details,
     description |-> description]

(***************************************************************************)
(* The score matrix: a DataFrame with index = student ids (row order),     *)
(* ncols day columns in chronological order (a day is named by its         *)
(* 1-based column position) and rows[i] the scores of student index[i].    *)
(***************************************************************************)
NStudents(d) == Len(d.index)

\* df.loc[student]
Loc(d, student) ==
    d.rows[CHOOSE i \in 1..Len(d.index) : d.index[i] = student]

\* df[day]: the column, in row order
Column(d, day) == [i \in 1..Len(d.index) |-> d.rows[i][day]]

(***************************************************************************)
(* DetectionEngine.detect_copieurs                                         *)
(***************************************************************************)
\* SimilarDay with a difference that must equal the tolerance
SimilarDayAtTolerance(a, b, tolerance) ==
    LET d == Diff(a, b) IN ~d.nan /\ Abs(d.v) = tolerance

\* SimilarDay with a missing cell taken as a match
SimilarDayMissingMatches(a, b, tolerance) ==
    LET d == Diff(a, b) IN d.nan \/ Abs(d.v) <= tolerance

\* abs(scores1[day] - scores2[day]) <= tolerance, false when a cell is NaN
SimilarDay(a, b, tolerance) ==
    LET d == Diff(a, b) IN ~d.nan /\ Abs(d.v) <= tolerance

\* ScanDays with a streak that a non-similar day does not end
RECURSIVE ScanDaysNoReset(_, _, _, _, _)
ScanDaysNoReset(scores1, scores2, tolerance, idx, st) ==
    IF idx >= Len(scores1) THEN st
    ELSE LET streak == st.consecutive_streak + 1
             hit == [similar_days |-> Append(st.similar_days, idx + 1),
                     consecutive_streak |-> streak,
                     max_consecutive |-> Max(st.max_consecutive, streak),
                     last_similar |-> idx]
         IN  ScanDaysNoReset(scores1, scores2, tolerance, idx + 1,
                             IF SimilarDay(scores1[idx + 1], scores2[idx + 1], tolerance)
                             THEN hit ELSE st)

\* the loop over enumerate(df.columns); idx is the 0-based column position
RECURSIVE ScanDays(_, _, _, _, _)
ScanDays(scores1, scores2, tolerance, idx, st) ==
    IF idx >= Len(scores1) THEN st
    ELSE LET streak == IF st.last_similar = idx - 1
                       THEN st.consecutive_streak + 1
                       ELSE 1
             hit == [similar_days |-> Append(st.similar_days, idx + 1),
                     consecutive_streak |-> streak,
                     max_consecutive |-> Max(st.max_consecutive, streak),
                     last_similar |-> idx]
         IN  ScanDays(scores1, scores2, tolerance, idx + 1,
                      IF SimilarDay(scores1[idx + 1], scores2[idx + 1], tolerance)
                      THEN hit ELSE st)

PairScan(d, cfg, s1, s2) ==
    ScanDays(Loc(d, s1), Loc(d, s2), cfg.copieur_tolerance, 0,
             [similar_days |-> <<>>, consecutive_streak |-> 0,
              max_consecutive |-> 0, last_similar |-> -1])

\* PairFlagged with no test at all
PairFlaggedAlways(d, cfg, scan) == TRUE

\* PairFlagged without the ratio test
PairFlaggedDaysOnly(d, cfg, scan) ==
    Len(scan.similar_days) >= cfg.copieur_min_days

\* len(similar_days) >= copieur_min_days and ratio >= copieur_min_ratio, with
\* ratio = len(similar_days) / len(df.columns)
PairFlagged(d, cfg, scan) ==
    /\ Len(scan.similar_days) >= cfg.copieur_min_days
    /\ Len(scan.similar_days) * cfg.copieur_min_ratio.den
          >= cfg.copieur_min_ratio.num * d.ncols

\* total_score of a flagged pair
CopieurScore(similar, max_consecutive) ==
    Min(40 + Min((similar - 3) * 5, 20)
           + (IF max_consecutive >= 2 THEN 15 ELSE 0), 100)

CopieurResult(d, student, partner, scan) ==
    SuspicionResult(student, COPIEUR,
        CopieurScore(Len(scan.similar_days), scan.max_consecutive),
        [partner |-> partner,
         similar_days |-> Len(scan.similar_days),
         max_consecutive |-> scan.max_consecutive,
         ratio |-> [num |-> Len(scan.similar_days), den |-> d.ncols],
         days |-> scan.similar_days],
        [type |-> COPIEUR,
         text |-> <<Len(scan.similar_days), partner, scan.max_consecutive>>])

\* PairResults with a result for the first student of the pair only
PairResultsOneSided(d, cfg, i, j) ==
    LET s1 == d.index[i]
        s2 == d.index[j]
        scan == PairScan(d, cfg, s1, s2)
    IN  IF PairFlagged(d, cfg, scan) THEN <<CopieurResult(d, s1, s2, scan)>> ELSE <<>>

\* the two results appended for the pair (students[i], students[j])
PairResults(d, cfg, i, j) ==
    LET s1 == d.index[i]
        s2 == d.index[j]
        scan == PairScan(d, cfg, s1, s2)
    IN  IF PairFlagged(d, cfg, scan)
        THEN <<CopieurResult(d, s1, s2, scan), CopieurResult(d, s2, s1, scan)>>
        ELSE <<>>

\* for i in range(n): for j in range(i + 1, n), 1-based here
RECURSIVE CopieursLoop(_, _, _, _)
CopieursLoop(d, cfg, i, j) ==
    IF i > NStudents(d) THEN <<>>
    ELSE IF j > NStudents(d) THEN CopieursLoop(d, cfg, i + 1, i + 2)
    ELSE PairResults(d, cfg, i, j) \o CopieursLoop(d, cfg, i, j + 1)

\* the division len(similar_days) / len(df.columns) raises ZeroDivisionError
\* on the first pair when the matrix has no day column
CopieursRaises(d) == NStudents(d) >= 2 /\ d.ncols = 0

DetectCopieursResult(d, cfg) ==
    IF NStudents(d) < 2 THEN <<>> ELSE CopieursLoop(d, cfg, 1, 2)

(***************************************************************************)
(* DetectionEngine.detect_pics_isoles                                      *)
(***************************************************************************)
\* Series.mean() of a window, NaN cells skipped: the exact fraction sum/n in
\* units of 1/Scale, and n = 0 for a window whose cells are all NaN (mean NaN)
SeriesMean(window) ==
    LET present == SelectSeq(window, LAMBDA x : ~IsNaN(x))
    IN  [sum |-> SumSeq(present), n |-> Len(present)]

\* MeanOrHundred with an empty window counted as 0
MeanOrZero(window) ==
    IF Len(window) > 0 THEN SeriesMean(window) ELSE [sum |-> 0, n |-> 1]

\* avant.mean() if len(avant) > 0 else 100
MeanOrHundred(window) ==
    IF Len(window) > 0 THEN SeriesMean(window) ELSE [sum |-> 100 * Scale, n |-> 1]

\* mean < seuil on floats: false for a NaN mean
MeanBelow(m, seuil) == m.n > 0 /\ m.sum < seuil * m.n

\* format(mean, '.0f'): the nearest whole number, halves to even; NaN for 'nan'
FormatMean(m) == IF m.n = 0 THEN NaN ELSE RoundHalfEven(m.sum, m.n * Scale)

\* format(score, '.0f') of a cell
FormatScore(x) == IF IsNaN(x) THEN NaN ELSE RoundHalfEven(x, Scale)

\* scores[max(0, i - fenetre):i], i the 0-based day position
Avant(scores, i, fenetre) == Slice(scores, Max(0, i - fenetre), i)

\* scores[i + 1:min(len(scores), i + 1 + fenetre)]
Apres(scores, i, fenetre) ==
    Slice(scores, i + 1, Min(Len(scores), i + 1 + fenetre))

\* the day passes "if score < pic_seuil_haut: continue": a NaN score compares
\* false and is not skipped
PassesHighTest(score, cfg) == ~(~IsNaN(score) /\ score < cfg.pic_seuil_haut)

PicFlagged(scores, i, cfg) ==
    /\ PassesHighTest(scores[i + 1], cfg)
    /\ MeanBelow(MeanOrHundred(Avant(scores, i, cfg.pic_fenetre)), cfg.pic_seuil_bas)
    /\ MeanBelow(MeanOrHundred(Apres(scores, i, cfg.pic_fenetre)), cfg.pic_seuil_bas)

PicResult(student, scores, i, cfg) ==
    LET moyenne_avant == MeanOrHundred(Avant(scores, i, cfg.pic_fenetre))
        moyenne_apres == MeanOrHundred(Apres(scores, i, cfg.pic_fenetre))
    IN  SuspicionResult(student, PIC_ISOLE, 60,
            [day |-> i + 1,
             score |-> scores[i + 1],
             moyenne_avant |-> moyenne_avant,
             moyenne_apres |-> moyenne_apres],
            [type |-> PIC_ISOLE,
             text |-> <<i + 1, FormatScore(scores[i + 1]),
                        FormatMean(moyenne_avant), FormatMean(moyenne_apres)>>])

\* for i, day in enumerate(df.columns), for one student
RECURSIVE PicsOfStudent(_, _, _, _)
PicsOfStudent(student, scores, i, cfg) ==
    IF i >= Len(scores) THEN <<>>
    ELSE (IF PicFlagged(scores, i, cfg)
          THEN <<PicResult(student, scores, i, cfg)>> ELSE <<>>)
         \o PicsOfStudent(student, scores, i + 1, cfg)

\* for student in df.index
RECURSIVE PicsLoop(_, _, _)
PicsLoop(d, cfg, k) ==
    IF k > NStudents(d) THEN <<>>
    ELSE PicsOfStudent(d.index[k], d.rows[k], 0, cfg) \o PicsLoop(d, cfg, k + 1)

DetectPicsIsolesResult(d, cfg) == PicsLoop(d, cfg, 1)

(***************************************************************************)
(* DetectionEngine.detect_montagnes_russes                                 *)
(***************************************************************************)
\* abs(diff) >= montagne_seuil_variation, false for a NaN difference
BigSwing(diff, cfg) == ~diff.nan /\ Abs(diff.v) >= cfg.montagne_seuil_variation

\* (diff > 0 and prev_diff < 0) or (diff < 0 and prev_diff > 0)
DirectionChange(diff, prev_diff) ==
    /\ ~diff.nan
    /\ ~prev_diff.nan
    /\ \/ diff.v > 0 /\ prev_diff.v < 0
       \/ diff.v < 0 /\ prev_diff.v > 0

\* the body of "for i in range(1, len(scores))" counts an alternance at i
\* (0-based day position)
AlternanceAt(scores, i, cfg) ==
    /\ BigSwing(Diff(scores[i + 1], scores[i]), cfg)
    /\ i > 1
    /\ DirectionChange(Diff(scores[i + 1], scores[i]), Diff(scores[i], scores[i - 1]))

\* format(diff, '+.0f'): the sign and the nearest whole number of points,
\* halves to even ('-0' for -0.5); only differences that are not NaN are shown
FormatDiff(diff) ==
    [sign |-> IF diff.v < 0 THEN "-" ELSE "+",
     digits |-> RoundHalfEven(Abs(diff.v), Scale)]

\* details_jours, in the order appended
RECURSIVE DetailsJours(_, _, _)
DetailsJours(scores, i, cfg) ==
    IF i >= Len(scores) THEN <<>>
    ELSE (IF AlternanceAt(scores, i, cfg)
          THEN <<[from |-> i - 1, middle |-> i, to |-> i + 1,
                  variation |-> <<FormatDiff(Diff(scores[i], scores[i - 1])),
                                  FormatDiff(Diff(scores[i + 1], scores[i]))>>]>>
          ELSE <<>>)
         \o DetailsJours(scores, i + 1, cfg)

\* every counted alternance appends one entry, so alternances = len(details_jours)
Alternances(scores, cfg) == Len(DetailsJours(scores, 1, cfg))

\* score = min(alternances * 15, 100)
MontagneScore(alternances) == Min(alternances * 15, 100)

MontagneResult(student, scores, cfg) ==
    LET alternances == Alternances(scores, cfg)
    IN  SuspicionResult(student, MONTAGNES_RUSSES, MontagneScore(alternances),
            [alternances |-> alternances,
             patterns |-> Take(DetailsJours(scores, 1, cfg), 5)],
            [type |-> MONTAGNES_RUSSES, text |-> <<alternances>>])

RECURSIVE MontagnesLoop(_, _, _)
MontagnesLoop(d, cfg, k) ==
    IF k > NStudents(d) THEN <<>>
    ELSE (IF Alternances(d.rows[k], cfg) >= cfg.montagne_min_alternances
          THEN <<MontagneResult(d.index[k], d.rows[k], cfg)>> ELSE <<>>)
         \o MontagnesLoop(d, cfg, k + 1)

DetectMontagnesRussesResult(d, cfg) == MontagnesLoop(d, cfg, 1)

(***************************************************************************)
(* DetectionEngine.detect_copies_collectives                               *)
(***************************************************************************)
\* rounded = day_scores.round(0), in row order
Rounded(d, day) == [i \in 1..NStudents(d) |-> Round0(Column(d, day)[i])]

\* value_counts()[score]: NaN cells are dropped
ValueCount(d, day, score) ==
    Cardinality({i \in 1..NStudents(d) : Rounded(d, day)[i] = score})

\* Buckets without the test on the count
BucketsOfAnySize(d, cfg, day) ==
    {Rounded(d, day)[i] : i \in 1..NStudents(d)} \ {NaN}

\* the rounded scores of the day whose count reaches collectif_min_eleves
Buckets(d, cfg, day) ==
    {score \in {Rounded(d, day)[i] : i \in 1..NStudents(d)} \ {NaN} :
        ValueCount(d, day, score) >= cfg.collectif_min_eleves}

\* eleves = day_scores[rounded == score].index.tolist(): row order
RECURSIVE ElevesFrom(_, _, _, _)
ElevesFrom(d, day, score, i) ==
    IF i > NStudents(d) THEN <<>>
    ELSE (IF Rounded(d, day)[i] = score THEN <<d.index[i]>> ELSE <<>>)
         \o ElevesFrom(d, day, score, i + 1)

Eleves(d, day, score) == ElevesFrom(d, day, score, 1)

\* value_counts() lists the scores by decreasing count; it sorts with pandas'
\* default, unstable sort, so scores of equal count come in any order
RECURSIVE BucketOrders(_, _, _)
BucketOrders(d, day, todo) ==
    IF todo = {} THEN {<<>>}
    ELSE LET top == {b \in todo : \A c \in todo :
                        ValueCount(d, day, b) >= ValueCount(d, day, c)}
         IN  UNION {{<<b>> \o rest : rest \in BucketOrders(d, day, todo \ {b})} :
                    b \in top}

HasCollective(acc, student) ==
    \E k \in 1..Len(acc) : /\ acc[k].student_id = student
                           /\ acc[k].suspicion_type = COPIE_COLLECTIVE

\* Partners without the filter on the student
PartnersWithSelf(eleves, student) == Take(eleves, 5)

\* [e for e in eleves if e != student][:5]
Partners(eleves, student) == Take(SelectSeq(eleves, LAMBDA e : e # student), 5)

CollectifResult(student, day, score, count, eleves) ==
    SuspicionResult(student, COPIE_COLLECTIVE, 50,
        [day |-> day,
         score |-> score,
         cluster_size |-> count,
         partners |-> Partners(eleves, student)],
        [type |-> COPIE_COLLECTIVE, text |-> <<day, count, score>>])

\* for student in eleves: append a result unless the student already has one
RECURSIVE ClusterLoop(_, _, _, _, _, _)
ClusterLoop(acc, eleves, k, day, score, count) ==
    IF k > Len(eleves) THEN acc
    ELSE ClusterLoop(
            IF HasCollective(acc, eleves[k]) THEN acc
            ELSE Append(acc, CollectifResult(eleves[k], day, score, count, eleves)),
            eleves, k + 1, day, score, count)

\* for score, count in value_counts.items(), in the given order
RECURSIVE BucketsLoop(_, _, _, _)
BucketsLoop(acc, d, day, order) ==
    IF order = <<>> THEN acc
    ELSE BucketsLoop(
            ClusterLoop(acc, Eleves(d, day, Head(order)), 1, day, Head(order),
                        ValueCount(d, day, Head(order))),
            d, day, Tail(order))

\* for day in df.columns: every list of results the run can end with
RECURSIVE CollectivesLoop(_, _, _, _)
CollectivesLoop(acc, d, cfg, day) ==
    IF day > d.ncols THEN {acc}
    ELSE UNION {CollectivesLoop(BucketsLoop(acc, d, day, order), d, cfg, day + 1) :
                order \in BucketOrders(d, day, Buckets(d, cfg, day))}

DetectCopiesCollectivesResults(d, cfg) == CollectivesLoop(<<>>, d, cfg, 1)

(***************************************************************************)
(* DetectionEngine.detect_all                                              *)
(***************************************************************************)
\* list.sort(key=lambda x: x.score, reverse=True): stable, so results of equal
\* score keep their order
RECURSIVE InsertByScore(_, _)
InsertByScore(sorted, r) ==
    IF sorted = <<>> THEN <<r>>
    ELSE IF Head(sorted).score >= r.score
         THEN <<Head(sorted)>> \o InsertByScore(Tail(sorted), r)
         ELSE <<r>> \o sorted

RECURSIVE SortByScore(_)
SortByScore(s) ==
    IF s = <<>> THEN <<>>
    ELSE InsertByScore(SortByScore(SubSeq(s, 1, Len(s) - 1)), s[Len(s)])

\* the four extend() calls, with one outcome of detect_copies_collectives
Extended(d, cfg, collectives) ==
    DetectCopieursResult(d, cfg) \o DetectPicsIsolesResult(d, cfg)
        \o DetectMontagnesRussesResult(d, cfg) \o collectives

\* every value detect_all can leave in self.results (and return)
DetectAllResults(d, cfg) ==
    {SortByScore(Extended(d, cfg, c)) : c \in DetectCopiesCollectivesResults(d, cfg)}

(***************************************************************************)
(* DetectionEngine.calculate_suspicion_scores                              *)
(* The dict scores is a sequence of rows in insertion order; points are in *)
(* units of 1/Scale.                                                       *)
(***************************************************************************)
InitRow(student) ==
    [student |-> student, score |-> 0, raisons |-> <<>>, copieurs |-> 0,
     pics |-> 0, montagnes |-> 0, collectif |-> 0]

\* points = 4 + min(similar_days - 3, 3), + 2 if max_consecutive >= 2
CopieurPoints(result) ==
    (4 + Min(result.details.similar_days - 3, 3)
       + (IF result.details.max_consecutive >= 2 THEN 2 ELSE 0)) * Scale

\* PicPoints taken from the raw score of the result, 60.0
PicPointsRaw == 60 * Scale

PicPoints == 6 * Scale

\* min(alternances * 1.5, 7)
MontagnePoints(result) == Min(result.details.alternances * 3, 7 * Scale)

CollectifPoints == 2 * Scale

AddResult(row, result) ==
    LET t == result.suspicion_type
        points == IF t = COPIEUR THEN CopieurPoints(result)
                  ELSE IF t = PIC_ISOLE THEN PicPoints
                  ELSE IF t = MONTAGNES_RUSSES THEN MontagnePoints(result)
                  ELSE CollectifPoints
    IN  [row EXCEPT
            !.score = @ + points,
            !.copieurs = IF t = COPIEUR THEN @ + points ELSE @,
            !.pics = IF t = PIC_ISOLE THEN @ + points ELSE @,
            !.montagnes = IF t = MONTAGNES_RUSSES THEN @ + points ELSE @,
            !.collectif = IF t = COPIE_COLLECTIVE THEN @ + points ELSE @,
            !.raisons = Append(@, result.description)]

\* for result in self.results
RECURSIVE Accumulate(_, _)
Accumulate(scores, rs) ==
    IF rs = <<>> THEN scores
    ELSE LET r == Head(rs)
             known == \E k \in 1..Len(scores) : scores[k].student = r.student_id
             withRow == IF known THEN scores ELSE Append(scores, InitRow(r.student_id))
             pos == CHOOSE k \in 1..Len(withRow) : withRow[k].student = r.student_id
         IN  Accumulate([withRow EXCEPT ![pos] = AddResult(@, r)], Tail(rs))

\* result_df.sort_values('score', ascending=False): pandas' default sort is
\* not stable, so rows of equal score come in any order
RECURSIVE SortValues(_)
SortValues(rows) ==
    IF rows = {} THEN {<<>>}
    ELSE LET top == {r \in rows : \A q \in rows : r.score >= q.score}
         IN  UNION {{<<r>> \o rest : rest \in SortValues(rows \ {r})} : r \in top}

\* SuspicionTables with a row for every student of the matrix
SuspicionTablesOfAllStudents(rs) ==
    SortValues(Range(Accumulate([k \in 1..NStudents(df) |-> InitRow(df.index[k])], rs)))

\* every table calculate_suspicion_scores can return once self.results is rs;
\* the empty DataFrame is the empty table
SuspicionTables(rs) == SortValues(Range(Accumulate(<<>>, rs)))

(***************************************************************************)
(* Inputs                                                                  *)
(***************************************************************************)
Shapes(cells) ==
    {sh \in (0..MaxStudents) \X (0..MaxDays) : sh[1] * sh[2] <= cells}

\* student ids are 1..n; the row order is increasing or decreasing in the id
IndexOrders(n) == {[i \in 1..n |-> i], [i \in 1..n |-> n + 1 - i]}

MatricesOf(shapes) ==
    UNION {{[index |-> ix, ncols |-> sh[2], rows |-> rw] :
                ix \in IndexOrders(sh[1]),
                rw \in [1..sh[1] -> [1..sh[2] -> ScoreValues]]} :
           sh \in shapes}

\* the matrices the single detectors are run on
Matrices == MatricesOf(Shapes(MaxCells))

\* the matrices the whole pipeline is run on
SmallMatrices == MatricesOf(Shapes(MaxEngineCells))

Points(row) == [i \in 1..Len(row) |-> row[i] * Scale]

\* the fixtures of tests/test_detection.py
sample_data ==
    [index |-> <<1, 2, 3>>, ncols |-> 5,
     rows |-> <<Points(<<50, 60, 70, 80, 90>>),
                Points(<<50, 60, 70, 80, 90>>),
                Points(<<10, 20, 30, 40, 50>>)>>]

pic_data ==
    [index |-> <<1, 2>>, ncols |-> 5,
     rows |-> <<Points(<<20, 15, 85, 25, 20>>),
                Points(<<10, 10, 15, 20, 25>>)>>]

montagnes_data ==
    [index |-> <<1>>, ncols |-> 5,
     rows |-> <<Points(<<10, 50, 15, 55, 20>>)>>]

\* seven students sharing one score on day 1, four of them again on day 2
\* (a cluster larger than the five partners a result lists)
cluster_data ==
    [index |-> <<1, 2, 3, 4, 5, 6, 7>>, ncols |-> 2,
     rows |-> <<Points(<<50, 60>>), Points(<<50, 60>>), Points(<<50, 60>>),
                Points(<<50, 60>>), Points(<<50, 10>>), Points(<<50, 20>>),
                Points(<<50, 30>>)>>]

\* seven days of swings above the default threshold: five alternances
zigzag_data ==
    [index |-> <<1>>, ncols |-> 7,
     rows |-> <<Points(<<10, 50, 15, 55, 20, 60, 25>>)>>]

\* an oscillating student who also shares the score of day 1 with two others
mixed_data ==
    [index |-> <<1, 2, 3>>, ncols |-> 5,
     rows |-> <<Points(<<10, 50, 15, 55, 20>>),
                Points(<<10, 30, 30, 40, 45>>),
                Points(<<10, 70, 60, 20, 90>>)>>]

\* the fixtures the whole pipeline is run on
Fixtures == {sample_data, pic_data, montagnes_data, zigzag_data, mixed_data}

\* the fixtures the single detectors are run on
DetectorFixtures == Fixtures \cup {cluster_data}

\* a base configuration under which small matrices are flagged
Loose ==
    [DetectionConfig EXCEPT !.copieur_min_days = 1,
                            !.pic_fenetre = 1,
                            !.montagne_min_alternances = 1,
                            !.collectif_min_eleves = 2]

Ratios == {[num |-> 2, den |-> 5], [num |-> 1, den |-> 1]}

CopieurConfigs ==
    {[DetectionConfig EXCEPT !.copieur_tolerance = t, !.copieur_min_days = n,
                             !.copieur_min_ratio = r] :
        t \in {0, Scale}, n \in {1, 2, 4}, r \in Ratios}

PicConfigs ==
    {[DetectionConfig EXCEPT !.pic_fenetre = w, !.pic_seuil_bas = b,
                             !.pic_seuil_haut = h] :
        w \in {0, 1, 2}, b \in {41, 30 * Scale, 100 * Scale},
        h \in {41, 70 * Scale}}

MontagneConfigs ==
    {[DetectionConfig EXCEPT !.montagne_seuil_variation = v,
                             !.montagne_min_alternances = m] :
        v \in {1, 30 * Scale, 50 * Scale}, m \in {1, 2, 3}}

CollectifConfigs ==
    {[DetectionConfig EXCEPT !.collectif_min_eleves = k] : k \in {1, 2, 3}}

EngineConfigs ==
    {DetectionConfig,
     Loose,
     [Loose EXCEPT !.copieur_tolerance = 0, !.pic_fenetre = 2,
                   !.montagne_seuil_variation = 1, !.collectif_min_eleves = 3],
     [Loose EXCEPT !.copieur_min_days = 2, !.copieur_min_ratio = [num |-> 1, den |-> 1],
                   !.pic_fenetre = 0, !.montagne_min_alternances = 2,
                   !.collectif_min_eleves = 1]}

(***************************************************************************)
(* The engine as a state machine                                           *)
(***************************************************************************)
Returned(op, findings) ==
    [op |-> op, raised |-> FALSE, findings |-> findings, table |-> <<>>]

ReturnedTable(op, table) ==
    [op |-> op, raised |-> FALSE, findings |-> <<>>, table |-> table]

Raised(op) == [op |-> op, raised |-> TRUE, findings |-> <<>>, table |-> <<>>]

\* The order of value_counts() among equal counts and the order of
\* sort_values() among equal scores are not specified by pandas, but they are
\* computed by deterministic code: one installation gives one order for one
\* input.  ties records the order this installation gave, from the first call
\* that needed it; every later call on the same matrix and configuration
\* gets the same one.  ties.results keeps the list the first complete
\* detect_all left in self.results, for comparison with later runs.
Unset == [set |-> FALSE, val |-> <<>>]

Fixed(val) == [set |-> TRUE, val |-> val]

Allows(tie, val) == tie.set => val = tie.val

FirstRun(tie, val) == IF tie.set THEN tie ELSE Fixed(val)

\* no concurrent pass, an empty cache directory, no API call
Idle ==
    /\ engines = <<>>
    /\ calls = <<>>
    /\ files = {}
    /\ now = 0
    /\ api = <<>>

\* DetectionEngine(df, config): self.results = []
Engine(matrices, configs) ==
    /\ df \in matrices
    /\ config \in configs
    /\ results = <<>>
    /\ ret = Returned("__init__", <<>>)
    /\ ties = [collectives |-> Unset, table |-> Unset, results |-> Unset]
    /\ Idle

Init == Engine(SmallMatrices \cup Fixtures, EngineConfigs)

\* detect_copieurs that also stores its results in self.results
detect_copieurs_storing ==
    /\ ret' = IF CopieursRaises(df) THEN Raised("detect_copieurs")
              ELSE Returned("detect_copieurs", DetectCopieursResult(df, config))
    /\ results' = ret'.findings
    /\ UNCHANGED <<df, config, ties, outside>>

detect_copieurs ==
    /\ ret' = IF CopieursRaises(df) THEN Raised("detect_copieurs")
              ELSE Returned("detect_copieurs", DetectCopieursResult(df, config))
    /\ UNCHANGED <<df, config, results, ties, outside>>

detect_pics_isoles ==
    /\ ret' = Returned("detect_pics_isoles", DetectPicsIsolesResult(df, config))
    /\ UNCHANGED <<df, config, results, ties, outside>>

detect_montagnes_russes ==
    /\ ret' = Returned("detect_montagnes_russes",
                       DetectMontagnesRussesResult(df, config))
    /\ UNCHANGED <<df, config, results, ties, outside>>

\* detect_copies_collectives that rounds the scores in the matrix itself
detect_copies_collectives_in_place ==
    /\ \E c \in DetectCopiesCollectivesResults(df, config) :
          /\ Allows(ties.collectives, c)
          /\ ties' = [ties EXCEPT !.collectives = Fixed(c)]
          /\ ret' = Returned("detect_copies_collectives", c)
    /\ df' = [df EXCEPT !.rows = [i \in 1..NStudents(df) |->
                                    [day \in 1..df.ncols |->
                                        IF IsNaN(df.rows[i][day]) THEN NaN
                                        ELSE Round0(df.rows[i][day]) * Scale]]]
    /\ UNCHANGED <<config, results, outside>>

detect_copies_collectives ==
    /\ \E c \in DetectCopiesCollectivesResults(df, config) :
          /\ Allows(ties.collectives, c)
          /\ ties' = [ties EXCEPT !.collectives = Fixed(c)]
          /\ ret' = Returned("detect_copies_collectives", c)
    /\ UNCHANGED <<df, config, results, outside>>

\* detect_all without self.results = []: the new results are added to those
\* of earlier runs
detect_all_accumulating ==
    /\ IF CopieursRaises(df)
       THEN UNCHANGED results /\ ret' = Raised("detect_all") /\ UNCHANGED ties
       ELSE \E c \in DetectCopiesCollectivesResults(df, config) :
               /\ Allows(ties.collectives, c)
               /\ results' = SortByScore(results \o Extended(df, config, c))
               /\ ties' = [ties EXCEPT !.collectives = Fixed(c),
                                       !.results = FirstRun(@, results')]
               /\ ret' = Returned("detect_all", results')
    /\ UNCHANGED <<df, config, outside>>

\* self.results = [] comes first, so a raising detect_copieurs leaves it empty
detect_all ==
    /\ IF CopieursRaises(df)
       THEN results' = <<>> /\ ret' = Raised("detect_all") /\ UNCHANGED ties
       ELSE \E c \in DetectCopiesCollectivesResults(df, config) :
               /\ Allows(ties.collectives, c)
               /\ results' = SortByScore(Extended(df, config, c))
               /\ ties' = [ties EXCEPT !.collectives = Fixed(c),
                                       !.results = FirstRun(@, results')]
               /\ ret' = Returned("detect_all", results')
    /\ UNCHANGED <<df, config, outside>>

calculate_suspicion_scores ==
    /\ IF CopieursRaises(df)
       THEN /\ results' = <<>>
            /\ ret' = Raised("calculate_suspicion_scores")
            /\ UNCHANGED ties
       ELSE \E c \in DetectCopiesCollectivesResults(df, config) :
            \E table \in SuspicionTables(SortByScore(Extended(df, config, c))) :
               /\ Allows(ties.collectives, c)
               /\ Allows(ties.table, table)
               /\ results' = SortByScore(Extended(df, config, c))
               /\ ties' = [collectives |-> Fixed(c), table |-> Fixed(table),
                           results |-> FirstRun(ties.results, results')]
               /\ ret' = ReturnedTable("calculate_suspicion_scores", table)
    /\ UNCHANGED <<df, config, outside>>

ReturnedValue(op, args, value) ==
    [op |-> op, raised |-> FALSE, findings |-> <<>>, table |-> <<>>,
     args |-> args, value |-> value]

\* [r for r in self.results if r.student_id == student_id]
StudentResults(rs, student_id) == SelectSeq(rs, LAMBDA r : r.student_id = student_id)

\* get_student_score: 0.0 without result, else sum(r.score) / len(...), kept
\* as the fraction sum/n
StudentScore(rs, student_id) ==
    LET student_results == StudentResults(rs, student_id)
    IN  IF student_results = <<>> THEN [sum |-> 0, n |-> 1]
        ELSE [sum |-> SumSeq([k \in 1..Len(student_results) |->
                                 student_results[k].score]),
              n |-> Len(student_results)]

\* scores.sort(key=lambda x: x[1], reverse=True): stable, on the means
RECURSIVE InsertSuspect(_, _)
InsertSuspect(sorted, x) ==
    IF sorted = <<>> THEN <<x>>
    ELSE IF Head(sorted)[2].sum * x[2].n >= x[2].sum * Head(sorted)[2].n
         THEN <<Head(sorted)>> \o InsertSuspect(Tail(sorted), x)
         ELSE <<x>> \o sorted

RECURSIVE SortSuspects(_)
SortSuspects(s) ==
    IF s = <<>> THEN <<>>
    ELSE InsertSuspect(SortSuspects(SubSeq(s, 1, Len(s) - 1)), s[Len(s)])

\* get_top_suspects(n) for n >= 0
TopSuspects(d, rs, n) ==
    Take(SortSuspects([k \in 1..NStudents(d) |->
                          <<d.index[k], StudentScore(rs, d.index[k])>>]), n)

\* the student ids a caller asks about: those of the matrix and a stranger
AskedStudents == Range(df.index) \cup {0}

\* the lengths a caller asks for; 10 is the default
AskedLengths == {0, 1, 2, 10}

get_student_score ==
    /\ \E student_id \in AskedStudents :
          ret' = ReturnedValue("get_student_score", [student_id |-> student_id],
                               StudentScore(results, student_id))
    /\ UNCHANGED <<df, config, results, ties, outside>>

get_top_suspects ==
    /\ \E n \in AskedLengths :
          ret' = ReturnedValue("get_top_suspects", [n |-> n],
                               TopSuspects(df, results, n))
    /\ UNCHANGED <<df, config, results, ties, outside>>

Next ==
    \/ detect_copieurs
    \/ detect_pics_isoles
    \/ detect_montagnes_russes
    \/ detect_copies_collectives
    \/ detect_all
    \/ calculate_suspicion_scores

Spec == Init /\ [][Next]_vars

(***************************************************************************)
(* A session on one engine: any sequence of calls of its methods           *)
(***************************************************************************)
\* the matrices a session is run on
SessionMatrices == MatricesOf(Shapes(MaxSessionCells))

NextSession ==
    \/ Next
    \/ get_student_score
    \/ get_top_suspects

SpecSession ==
    Engine(SessionMatrices \cup Fixtures, EngineConfigs) /\ [][NextSession]_vars

(***************************************************************************)
(* Each detector alone, on the larger matrices and with its own thresholds *)
(* varied                                                                  *)
(***************************************************************************)
SpecCopieurs ==
    Engine(Matrices \cup DetectorFixtures, CopieurConfigs) /\ [][detect_copieurs]_vars

SpecPics ==
    Engine(Matrices \cup DetectorFixtures, PicConfigs) /\ [][detect_pics_isoles]_vars

SpecMontagnes ==
    Engine(Matrices \cup DetectorFixtures, MontagneConfigs) /\ [][detect_montagnes_russes]_vars

SpecCollectives ==
    Engine(Matrices \cup DetectorFixtures, CollectifConfigs) /\ [][detect_copies_collectives]_vars

(***************************************************************************)
(* Properties                                                              *)
(***************************************************************************)
Positions == 1..NStudents(df)

Days == 1..df.ncols

Cell(k, day) == df.rows[k][day]

\* the results of a list that satisfy a test
Count(findings, Test(_)) == Cardinality({n \in 1..Len(findings) : Test(findings[n])})

After(op) == ret.op = op /\ ~ret.raised

\* the days on which the students in rows i and j are within the tolerance
SimilarDaysOf(i, j) ==
    {day \in Days : /\ ~IsNaN(Cell(i, day))
                    /\ ~IsNaN(Cell(j, day))
                    /\ Abs(Cell(i, day) - Cell(j, day)) <= config.copieur_tolerance}

EnoughSimilarDays(i, j) ==
    /\ Cardinality(SimilarDaysOf(i, j)) >= config.copieur_min_days
    /\ Cardinality(SimilarDaysOf(i, j)) * config.copieur_min_ratio.den
          >= config.copieur_min_ratio.num * df.ncols

PairReported(i, j) ==
    \E n \in 1..Len(ret.findings) :
        {ret.findings[n].student_id, ret.findings[n].details.partner}
            = {df.index[i], df.index[j]}

SideBelow(k, days, seuil) ==
    LET present == {day \in days : ~IsNaN(Cell(k, day))}
        total == SumSeq([n \in 1..df.ncols |->
                            IF n \in present THEN Cell(k, n) ELSE 0])
    IN  IF days = {} THEN 100 * Scale < seuil
        ELSE present # {} /\ total < seuil * Cardinality(present)

IsolatedPeak(k, day) ==
    /\ ~IsNaN(Cell(k, day))
    /\ Cell(k, day) >= config.pic_seuil_haut
    /\ SideBelow(k, {n \in Days : day - config.pic_fenetre <= n /\ n < day},
                 config.pic_seuil_bas)
    /\ SideBelow(k, {n \in Days : day < n /\ n <= day + config.pic_fenetre},
                 config.pic_seuil_bas)

PicFindings(k, day) ==
    Count(ret.findings, LAMBDA f : f.student_id = df.index[k] /\ f.details.day = day)

\* C2: detect_pics_isoles flags (student, day) exactly when the score is at
\* least pic_seuil_haut and the means of the available scores in the
\* pic_fenetre days before and after are both below pic_seuil_bas (an empty
\* side counting as 100), with exactly one finding per flagged (student, day).
C2_FlaggedIffIsolatedPeak ==
    After("detect_pics_isoles")
    => \A k \in Positions : \A day \in Days :
          PicFindings(k, day) = (IF IsolatedPeak(k, day) THEN 1 ELSE 0)

\* the same statement for the days that hold a score
C2_FlaggedIffIsolatedPeakOfPresentScore ==
    After("detect_pics_isoles")
    => \A k \in Positions : \A day \in Days :
          ~IsNaN(Cell(k, day))
          => PicFindings(k, day) = (IF IsolatedPeak(k, day) THEN 1 ELSE 0)

\* the example of the claim: [20, 15, 85, 25, 20] gives one finding, on the
\* third day, with means 17.5 and 22.5
C2_ScenarioB ==
    (After("detect_pics_isoles") /\ df = pic_data /\ config = DetectionConfig)
    => /\ Len(ret.findings) = 1
       /\ ret.findings[1].student_id = 1
       /\ ret.findings[1].details.day = 3
       /\ ret.findings[1].details.moyenne_avant = [sum |-> 35 * Scale, n |-> 2]
       /\ ret.findings[1].details.moyenne_apres = [sum |-> 45 * Scale, n |-> 2]

\* d[day] = score[day] - score[day - 1], defined when both scores are present
Delta(k, day) == Cell(k, day) - Cell(k, day - 1)

HasDelta(k, day) ==
    day - 1 \in Days /\ day \in Days /\ ~IsNaN(Cell(k, day)) /\ ~IsNaN(Cell(k, day - 1))

\* both swings reach the threshold and have strictly opposite signs
TwoBigOppositeSwings(k, day) ==
    /\ HasDelta(k, day)
    /\ HasDelta(k, day - 1)
    /\ Abs(Delta(k, day)) >= config.montagne_seuil_variation
    /\ Abs(Delta(k, day - 1)) >= config.montagne_seuil_variation
    /\ \/ Delta(k, day) > 0 /\ Delta(k, day - 1) < 0
       \/ Delta(k, day) < 0 /\ Delta(k, day - 1) > 0

BigOppositeSwingDays(k) == {day \in Days : TwoBigOppositeSwings(k, day)}

\* C3: detect_montagnes_russes counts an alternation at a day exactly when the
\* swing into that day and the swing before it both reach
\* montagne_seuil_variation and have strictly opposite signs; a large swing
\* after a small opposite one is not counted.
C3_AlternationNeedsTwoBigSwings ==
    After("detect_montagnes_russes")
    => \A k \in Positions :
          /\ \A n \in 1..Len(ret.findings) :
                ret.findings[n].student_id = df.index[k]
                => ret.findings[n].details.alternances
                      = Cardinality(BigOppositeSwingDays(k))
          /\ (\E n \in 1..Len(ret.findings) : ret.findings[n].student_id = df.index[k])
                <=> Cardinality(BigOppositeSwingDays(k))
                       >= config.montagne_min_alternances

\* the students of a day whose score rounds to the given whole point
RoundsTo(day, score) ==
    {k \in Positions : ~IsNaN(Cell(k, day)) /\ Round0(Cell(k, day)) = score}

\* the days on which the student is in a group of at least
\* collectif_min_eleves students with the same rounded score
ClusterDays(k) ==
    {day \in Days :
        /\ ~IsNaN(Cell(k, day))
        /\ Cardinality(RoundsTo(day, Round0(Cell(k, day))))
              >= config.collectif_min_eleves}

CollectiveFindings(k) ==
    Count(ret.findings, LAMBDA f : f.student_id = df.index[k])

\* C4: a student who is in a cluster on each of m days gets m collective
\* findings, one per (student, day).
C4_OneFindingPerClusterDay ==
    After("detect_copies_collectives")
    => \A k \in Positions : CollectiveFindings(k) = Cardinality(ClusterDays(k))

\* what the code does instead: one finding for a student with a cluster day
C4_OneFindingPerClusteredStudent ==
    After("detect_copies_collectives")
    => \A k \in Positions :
          CollectiveFindings(k) = (IF ClusterDays(k) = {} THEN 0 ELSE 1)

C5_WitnessRounding ==
    /\ After("detect_copies_collectives")
    /\ \E n \in 1..Len(ret.findings) :
          \E k \in RoundsTo(ret.findings[n].details.day, ret.findings[n].details.score) :
              Cell(k, ret.findings[n].details.day)
                 # ret.findings[n].details.score * Scale

\* the descriptions of a student's findings, in the order of the list
Descriptions(findings, student) ==
    LET own == SelectSeq(findings, LAMBDA f : f.student_id = student)
    IN  [n \in 1..Len(own) |-> own[n].description]

Rows == 1..Len(ret.table)

\* C6: a student's reasons are the descriptions of the student's findings in
\* detector emission order: pair-similarity, then isolated-peak, then
\* oscillation, then collective, each group as the detector emitted it.
C6_ReasonsInEmissionOrder ==
    After("calculate_suspicion_scores")
    => \E c \in DetectCopiesCollectivesResults(df, config) :
          /\ results = SortByScore(Extended(df, config, c))
          /\ \A r \in Rows :
                ret.table[r].raisons
                   = Descriptions(Extended(df, config, c), ret.table[r].student)

\* what the code does instead: the reasons follow self.results, which
\* detect_all has sorted by decreasing raw score
C6_ReasonsInResultsOrder ==
    After("calculate_suspicion_scores")
    => \A r \in Rows :
          ret.table[r].raisons = Descriptions(results, ret.table[r].student)

\* the strength the claim gives a pair-similarity finding, in points
PairStrength(f) ==
    4 + Min(f.details.similar_days - 3, 3)
      + (IF f.details.max_consecutive >= 2 THEN 2 ELSE 0)

\* the sum of Value over the student's findings of one type in self.results
SumOver(student, type, Value(_)) ==
    SumSeq([n \in 1..Len(results) |->
               IF results[n].student_id = student /\ results[n].suspicion_type = type
               THEN Value(results[n]) ELSE 0])

\* C7: the score carried by a pair-similarity finding is
\* 4 + min(similar_days - 3, 3) + (2 if max_consecutive >= 2), and the
\* aggregator adds that carried score to the student's pair-similarity
\* sub-score.
C7_AggregatorAddsFindingStrength ==
    After("calculate_suspicion_scores")
    => /\ \A n \in 1..Len(results) :
             results[n].suspicion_type = COPIEUR
             => results[n].score = PairStrength(results[n])
       /\ \A r \in Rows :
             ret.table[r].copieurs
                = Scale * SumOver(ret.table[r].student, COPIEUR, LAMBDA f : f.score)

\* C8: in every row the aggregate score is the sum of the four sub-scores, and
\* each sub-score is the sum of the contributions of the student's findings
\* of that kind: 6 per peak, 2 per collective finding, min(alternances x 1.5, 7)
\* per oscillation finding (and 4 + min(similar_days - 3, 3) + 2 or 0 per
\* pair finding).
C8_ScoreIsSumOfSubScores ==
    After("calculate_suspicion_scores")
    => \A r \in Rows :
          LET row == ret.table[r]
          IN  /\ row.score = row.copieurs + row.pics + row.montagnes + row.collectif
              /\ row.pics = SumOver(row.student, PIC_ISOLE, LAMBDA f : 6 * Scale)
              /\ row.collectif
                    = SumOver(row.student, COPIE_COLLECTIVE, LAMBDA f : 2 * Scale)
              /\ row.montagnes
                    = SumOver(row.student, MONTAGNES_RUSSES,
                              LAMBDA f : IF f.details.alternances * 3 <= 7 * Scale
                                         THEN f.details.alternances * 3
                                         ELSE 7 * Scale)
              /\ row.copieurs
                    = SumOver(row.student, COPIEUR, LAMBDA f : PairStrength(f) * Scale)

\* a table with a row fed by two kinds of findings and a row whose
\* oscillation points are capped at 7
C8_Witness ==
    /\ After("calculate_suspicion_scores")
    /\ \E r \in Rows :
          /\ ret.table[r].montagnes > 0
          /\ ret.table[r].collectif > 0
          /\ ret.table[r].score = ret.table[r].montagnes + ret.table[r].collectif

C8_WitnessCap ==
    /\ After("calculate_suspicion_scores")
    /\ \E r \in Rows : \E n \in 1..Len(results) :
          /\ results[n].student_id = ret.table[r].student
          /\ results[n].suspicion_type = MONTAGNES_RUSSES
          /\ results[n].details.alternances * 3 > 7 * Scale
          /\ ret.table[r].montagnes = 7 * Scale

\* the position in self.results of the student's first finding
FirstSeen(student) ==
    CHOOSE n \in 1..Len(results) :
        /\ results[n].student_id = student
        /\ \A m \in 1..(n - 1) : results[m].student_id # student

NonIncreasing ==
    \A a \in Rows : \A b \in Rows :
        a < b => ret.table[a].score >= ret.table[b].score

\* C9: the table lists the students by non-increasing aggregate score, and
\* students of equal score in the order in which they were first encountered
\* while iterating the findings.
C9_SortedWithTiesInFirstSeenOrder ==
    After("calculate_suspicion_scores")
    => /\ NonIncreasing
       /\ \A a \in Rows : \A b \in Rows :
             (a < b /\ ret.table[a].score = ret.table[b].score)
             => FirstSeen(ret.table[a].student) < FirstSeen(ret.table[b].student)

\* what the code guarantees: the order by score alone
C9_SortedByScore == After("calculate_suspicion_scores") => NonIncreasing

\* the students with a finding of any of the four detectors
FlaggedStudents ==
    {f.student_id : f \in Range(DetectCopieursResult(df, config))}
    \cup {f.student_id : f \in Range(DetectPicsIsolesResult(df, config))}
    \cup {f.student_id : f \in Range(DetectMontagnesRussesResult(df, config))}
    \cup UNION {{f.student_id : f \in Range(c)} :
                   c \in DetectCopiesCollectivesResults(df, config)}

\* C10: the table has exactly one row for each student with at least one
\* finding and none for any other student; it is empty when no detector emits
\* a finding.
C10_RowsAreFlaggedStudents ==
    After("calculate_suspicion_scores")
    => /\ {ret.table[r].student : r \in Rows} = FlaggedStudents
       /\ \A a \in Rows : \A b \in Rows :
             ret.table[a].student = ret.table[b].student => a = b
       /\ (FlaggedStudents = {} => ret.table = <<>>)

\* a table with a row for one student and none for another student of the
\* matrix
C10_Witness ==
    /\ After("calculate_suspicion_scores")
    /\ ret.table # <<>>
    /\ \E k \in Positions : \A r \in Rows : ret.table[r].student # df.index[k]

C10_WitnessEmpty ==
    /\ After("calculate_suspicion_scores")
    /\ NStudents(df) >= 2
    /\ ret.table = <<>>

\* C11: on a matrix with at least 2 students and no day column,
\* detect_copieurs returns no finding and does not raise a division by zero.
C11_NoDaysNoFindingNoRaise ==
    (ret.op = "detect_copieurs" /\ NStudents(df) >= 2 /\ df.ncols = 0)
    => ~ret.raised /\ ret.findings = <<>>

\* C12: detect_pics_isoles never flags a (student, day) whose own score is
\* missing, whatever the surrounding scores are.
C12_MissingScoreNeverAPeak ==
    After("detect_pics_isoles")
    => \A k \in Positions : \A day \in Days :
          IsNaN(Cell(k, day)) => PicFindings(k, day) = 0

\* the longest run of adjacent days of lo..hi that all belong to the set
LongestRun(days, lo, hi) ==
    LET runs == {len \in 0..(hi - lo + 1) :
                    \E a \in lo..(hi + 1 - len) : \A n \in a..(a + len - 1) : n \in days}
    IN  CHOOSE len \in runs : \A other \in runs : other <= len

\* a day on which the score of the student in row i or in row j is missing
MissingDay(i, j, day) == IsNaN(Cell(i, day)) \/ IsNaN(Cell(j, day))

\* the findings of the pair in rows i and j
PairFindings(i, j) ==
    {n \in 1..Len(ret.findings) :
        {ret.findings[n].student_id, ret.findings[n].details.partner}
            = {df.index[i], df.index[j]}}

\* C13: in detect_copieurs a day on which either score is missing is never
\* listed as a similar day, no reported run of consecutive similar days
\* extends across such a day, and the call raises for no placement of
\* missing values (it raises only on a matrix that has no day column at all).
C13_MissingDayNotSimilarAndBreaksRun ==
    ret.op = "detect_copieurs"
    => /\ ret.raised => df.ncols = 0
       /\ \A i \in Positions : \A j \in Positions : \A n \in PairFindings(i, j) :
             \A day \in Days :
                MissingDay(i, j, day)
                => /\ day \notin Range(ret.findings[n].details.days)
                   /\ ret.findings[n].details.max_consecutive
                         <= Max(LongestRun(SimilarDaysOf(i, j), 1, day - 1),
                                LongestRun(SimilarDaysOf(i, j), day + 1, df.ncols))

\* a reported pair with a missing score on a day between two similar days
C13_Witness ==
    /\ After("detect_copieurs")
    /\ \E i \in Positions : \E j \in Positions : \E day \in Days :
          /\ PairFindings(i, j) # {}
          /\ MissingDay(i, j, day)
          /\ day - 1 \in SimilarDaysOf(i, j)
          /\ day + 1 \in SimilarDaysOf(i, j)

\* C14: on a matrix with fewer than 2 students, the empty matrix included,
\* detect_copieurs returns an empty result without raising, and on a matrix
\* with fewer than collectif_min_eleves students detect_copies_collectives
\* emits no finding.
C14_TooFewStudentsNoFinding ==
    /\ (ret.op = "detect_copieurs" /\ NStudents(df) < 2)
       => ~ret.raised /\ ret.findings = <<>>
    /\ (ret.op = "detect_copies_collectives"
           /\ NStudents(df) < config.collectif_min_eleves)
       => ret.findings = <<>>

\* two students who share a score on some day, one short of the cluster size
C14_Witness ==
    /\ After("detect_copies_collectives")
    /\ NStudents(df) = 2
    /\ config.collectif_min_eleves = 3
    /\ \E day \in Days : ~IsNaN(Cell(1, day)) /\ Round0(Cell(1, day)) = Round0(Cell(2, day))
    /\ ret.findings = <<>>

\* detect_copieurs on the matrix with no row and no column, and on a single
\* student
C14_WitnessEmpty ==
    /\ After("detect_copieurs")
    /\ NStudents(df) = 0
    /\ df.ncols = 0

\* the pic_fenetre days before the day, and those after it
WindowBefore(day) == {n \in Days : day - config.pic_fenetre <= n /\ n < day}

WindowAfter(day) == {n \in Days : day < n /\ n <= day + config.pic_fenetre}

\* C15: with thresholds within [0, 100] and pic_fenetre >= 0,
\* detect_pics_isoles never flags a day whose window before or window after
\* is empty: never the first day, never the last day, and no day at all when
\* pic_fenetre is 0.
C15_EmptyWindowNeverFlagged ==
    (After("detect_pics_isoles")
        /\ config.pic_fenetre >= 0
        /\ config.pic_seuil_bas \in 0..(100 * Scale)
        /\ config.pic_seuil_haut \in 0..(100 * Scale))
    => /\ \A k \in Positions : \A day \in Days :
             (WindowBefore(day) = {} \/ WindowAfter(day) = {})
             => PicFindings(k, day) = 0
       /\ \A n \in 1..Len(ret.findings) :
             /\ ret.findings[n].details.day # 1
             /\ ret.findings[n].details.day # df.ncols
       /\ (config.pic_fenetre = 0 => ret.findings = <<>>)

\* a high score on the first day followed by low scores, not flagged, in a
\* run that flags another day
C15_Witness ==
    /\ After("detect_pics_isoles")
    /\ config.pic_fenetre >= 1
    /\ \E k \in Positions :
          /\ df.ncols >= 2
          /\ ~IsNaN(Cell(k, 1))
          /\ Cell(k, 1) >= config.pic_seuil_haut
          /\ SideBelow(k, WindowAfter(1), config.pic_seuil_bas)
          /\ PicFindings(k, 1) = 0
    /\ ret.findings # <<>>

\* no day is flagged with a window of 0 days although a high score stands
\* between two low ones
C15_WitnessNoWindow ==
    /\ After("detect_pics_isoles")
    /\ config.pic_fenetre = 0
    /\ \E k \in Positions : \E day \in Days :
          /\ day - 1 \in Days /\ day + 1 \in Days
          /\ ~IsNaN(Cell(k, day)) /\ Cell(k, day) >= config.pic_seuil_haut
          /\ ~IsNaN(Cell(k, day - 1)) /\ Cell(k, day - 1) < config.pic_seuil_bas
          /\ ~IsNaN(Cell(k, day + 1)) /\ Cell(k, day + 1) < config.pic_seuil_bas
    /\ ret.findings = <<>>

\* C16: for every reported pair, max_consecutive is the length of the longest
\* run of chronologically adjacent days that are all similar, over the
\* columns from left to right.
C16_MaxConsecutiveIsLongestRun ==
    After("detect_copieurs")
    => \A i \in Positions : \A j \in Positions : \A n \in PairFindings(i, j) :
          ret.findings[n].details.max_consecutive
             = LongestRun(SimilarDaysOf(i, j), 1, df.ncols)

\* a reported pair whose scores are both present and too far apart on a day
\* between two similar days
C16_Witness ==
    /\ After("detect_copieurs")
    /\ \E i \in Positions : \E j \in Positions : \E day \in Days :
          /\ PairFindings(i, j) # {}
          /\ ~MissingDay(i, j, day)
          /\ day \notin SimilarDaysOf(i, j)
          /\ day - 1 \in SimilarDaysOf(i, j)
          /\ day + 1 \in SimilarDaysOf(i, j)

\* C17: every flagged pair {A, B} yields exactly two findings, one for A with
\* partner B and one for B with partner A, with the same similar_days,
\* max_consecutive, ratio and score; no pair is reported more than once and
\* no student is paired with itself.
C17_TwoMirroredFindingsPerPair ==
    After("detect_copieurs")
    => /\ \A n \in 1..Len(ret.findings) :
             /\ ret.findings[n].student_id # ret.findings[n].details.partner
             /\ \E i \in Positions : \E j \in Positions :
                   i < j /\ n \in PairFindings(i, j)
       /\ \A i \in Positions : \A j \in Positions :
             (i < j /\ PairFindings(i, j) # {})
             => \E a \in PairFindings(i, j) : \E b \in PairFindings(i, j) :
                   /\ a # b
                   /\ PairFindings(i, j) = {a, b}
                   /\ ret.findings[a].student_id = df.index[i]
                   /\ ret.findings[a].details.partner = df.index[j]
                   /\ ret.findings[b].student_id = df.index[j]
                   /\ ret.findings[b].details.partner = df.index[i]
                   /\ ret.findings[a].score = ret.findings[b].score
                   /\ ret.findings[a].details.similar_days
                         = ret.findings[b].details.similar_days
                   /\ ret.findings[a].details.max_consecutive
                         = ret.findings[b].details.max_consecutive
                   /\ ret.findings[a].details.ratio = ret.findings[b].details.ratio

\* three students, every pair of them flagged
C17_Witness ==
    /\ After("detect_copieurs")
    /\ NStudents(df) = 3
    /\ Len(ret.findings) = 6

(***************************************************************************)
(* The function detect_copieurs: the compatibility wrapper of              *)
(* src/src/core/detection.py and the older function of src/dashboard.py    *)
(* that the tests import.  Both return a table with one row per pair; the  *)
(* call's arguments tolerance, min_days and min_ratio are the three        *)
(* copieur thresholds of the configuration in the state.                   *)
(***************************************************************************)
\* DetectionConfig(copieur_tolerance=tolerance, copieur_min_days=min_days,
\*                 copieur_min_ratio=min_ratio)
WrapperConfig(tolerance, min_days, min_ratio) ==
    [DetectionConfig EXCEPT !.copieur_tolerance = tolerance,
                            !.copieur_min_days = min_days,
                            !.copieur_min_ratio = min_ratio]

PairRow(s1, s2, similar, consecutive, ncols, days, more) ==
    [etudiant_1 |-> s1,
     etudiant_2 |-> s2,
     jours_similaires |-> similar,
     jours_consecutifs |-> consecutive,
     ratio |-> [num |-> similar, den |-> ncols],
     liste_jours |-> [days |-> Take(days, 5), more |-> more]]

\* the row the wrapper builds from a result
RowOfResult(r) ==
    PairRow(r.student_id, r.details.partner, r.details.similar_days,
            r.details.max_consecutive, r.details.ratio.den, r.details.days, FALSE)

\* WrapperPairs with a row for every result, seen or not
RECURSIVE WrapperPairsNoSeen(_, _, _)
WrapperPairsNoSeen(rs, n, seen) ==
    IF n > Len(rs) THEN <<>>
    ELSE <<RowOfResult(rs[n])>> \o WrapperPairsNoSeen(rs, n + 1, seen)

\* for r in results: a row for the first result of each key
\* tuple(sorted([student_id, partner]))
RECURSIVE WrapperPairs(_, _, _)
WrapperPairs(rs, n, seen) ==
    IF n > Len(rs) THEN <<>>
    ELSE LET key == {rs[n].student_id, rs[n].details.partner}
         IN  IF key \in seen THEN WrapperPairs(rs, n + 1, seen)
             ELSE <<RowOfResult(rs[n])>> \o WrapperPairs(rs, n + 1, seen \cup {key})

\* detect_copieurs(df, tolerance, min_days, min_ratio) of detection.py
compat_detect_copieurs ==
    LET cfg == WrapperConfig(config.copieur_tolerance, config.copieur_min_days,
                             config.copieur_min_ratio)
    IN  /\ ret' = IF CopieursRaises(df) THEN Raised("compat_detect_copieurs")
                  ELSE ReturnedTable("compat_detect_copieurs",
                                     WrapperPairs(DetectCopieursResult(df, cfg), 1, {}))
        /\ UNCHANGED <<df, config, results, ties, outside>>

\* the row appended for the pair (students[i], students[j]) by dashboard.py,
\* whose scan of the days is the same code as the engine's
DashboardPair(d, tolerance, min_days, min_ratio, i, j) ==
    LET cfg == WrapperConfig(tolerance, min_days, min_ratio)
        scan == PairScan(d, cfg, d.index[i], d.index[j])
    IN  IF PairFlagged(d, cfg, scan)
        THEN <<PairRow(d.index[i], d.index[j], Len(scan.similar_days),
                       scan.max_consecutive, d.ncols, scan.similar_days,
                       Len(scan.similar_days) > 5)>>
        ELSE <<>>

RECURSIVE DashboardPairsLoop(_, _, _, _, _, _)
DashboardPairsLoop(d, tolerance, min_days, min_ratio, i, j) ==
    IF i > NStudents(d) THEN <<>>
    ELSE IF j > NStudents(d)
         THEN DashboardPairsLoop(d, tolerance, min_days, min_ratio, i + 1, i + 2)
    ELSE DashboardPair(d, tolerance, min_days, min_ratio, i, j)
         \o DashboardPairsLoop(d, tolerance, min_days, min_ratio, i, j + 1)

\* detect_copieurs(df, tolerance, min_days, min_ratio) of dashboard.py
dashboard_detect_copieurs ==
    /\ ret' = IF NStudents(df) < 2 THEN ReturnedTable("dashboard_detect_copieurs", <<>>)
              ELSE IF df.ncols = 0 THEN Raised("dashboard_detect_copieurs")
              ELSE ReturnedTable("dashboard_detect_copieurs",
                       DashboardPairsLoop(df, config.copieur_tolerance,
                                          config.copieur_min_days,
                                          config.copieur_min_ratio, 1, 2))
    /\ UNCHANGED <<df, config, results, ties, outside>>

NextWrappers == compat_detect_copieurs \/ dashboard_detect_copieurs

SpecWrappers ==
    Engine(Matrices \cup DetectorFixtures, CopieurConfigs) /\ [][NextWrappers]_vars

\* the rows of the returned table that name the students in rows i and j
PairRows(i, j) ==
    {r \in 1..Len(ret.table) :
        {ret.table[r].etudiant_1, ret.table[r].etudiant_2} = {df.index[i], df.index[j]}}

\* both scores are present and equal on every day
IdenticalScores(i, j) ==
    \A day \in Days : ~IsNaN(Cell(i, day)) /\ Cell(i, day) = Cell(j, day)

AfterDetectCopieursFunction ==
    ret.op \in {"compat_detect_copieurs", "dashboard_detect_copieurs"} /\ ~ret.raised

C18_WitnessDashboard ==
    /\ ret.op = "dashboard_detect_copieurs"
    /\ NStudents(df) = 2
    /\ df.index[1] > df.index[2]
    /\ df.ncols = 2
    /\ IdenticalScores(1, 2)
    /\ Len(ret.table) = 1

MontagneFindings(k) ==
    Count(ret.findings, LAMBDA f : /\ f.student_id = df.index[k]
                                   /\ f.suspicion_type = MONTAGNES_RUSSES)

\* min(count x 1.5, 7) points for a student flagged with that count, else 0
OscillationPoints(count) ==
    IF count >= config.montagne_min_alternances THEN Min(count * 3, 7 * Scale) ELSE 0

RowOf(student) == CHOOSE k \in Positions : df.index[k] = student

\* C19: a student receives an oscillation finding exactly when the student's
\* number of alternations (two successive swings that both reach the
\* threshold, with opposite signs) is at least montagne_min_alternances, at
\* most one per student, and the finding adds min(alternations x 1.5, 7)
\* points, never more than 7, to the student's suspicion score.
C19_FlaggedIffEnoughAlternations ==
    /\ After("detect_montagnes_russes")
       => \A k \in Positions :
             MontagneFindings(k)
                = (IF Cardinality(BigOppositeSwingDays(k))
                         >= config.montagne_min_alternances
                   THEN 1 ELSE 0)
    /\ After("calculate_suspicion_scores")
       => \A r \in Rows :
             /\ ret.table[r].montagnes <= 7 * Scale
             /\ ret.table[r].montagnes
                   = OscillationPoints(
                        Cardinality(BigOppositeSwingDays(RowOf(ret.table[r].student))))

\* a swing that reaches the threshold right after a swing of strictly
\* opposite sign, whatever the size of that one: what the code counts
CountedSwingDays(k) ==
    {day \in Days :
        /\ HasDelta(k, day)
        /\ HasDelta(k, day - 1)
        /\ Abs(Delta(k, day)) >= config.montagne_seuil_variation
        /\ \/ Delta(k, day) > 0 /\ Delta(k, day - 1) < 0
           \/ Delta(k, day) < 0 /\ Delta(k, day - 1) > 0}

\* the same statement with the alternations counted as the code counts them
C19_FlaggedIffEnoughCountedSwings ==
    /\ After("detect_montagnes_russes")
       => \A k \in Positions :
             MontagneFindings(k)
                = (IF Cardinality(CountedSwingDays(k)) >= config.montagne_min_alternances
                   THEN 1 ELSE 0)
    /\ After("calculate_suspicion_scores")
       => \A r \in Rows :
             /\ ret.table[r].montagnes <= 7 * Scale
             /\ ret.table[r].montagnes
                   = OscillationPoints(
                        Cardinality(CountedSwingDays(RowOf(ret.table[r].student))))

\* the example of the claim: [10, 50, 15, 55, 20] is flagged with at least 3
\* alternations under threshold 30
C19_ScenarioC ==
    (After("detect_montagnes_russes") /\ df = montagnes_data
        /\ config.montagne_seuil_variation = 30 * Scale
        /\ config.montagne_min_alternances <= 3)
    => /\ Len(ret.findings) = 1
       /\ ret.findings[1].details.alternances >= 3

\* and is not flagged under threshold 50
C19_ScenarioCHighThreshold ==
    (After("detect_montagnes_russes") /\ df = montagnes_data
        /\ config.montagne_seuil_variation = 50 * Scale)
    => ret.findings = <<>>

\* the tolerances a second run is made with: 0, 0.5, 1 and 5 points
Tolerances == {0, 1, 1 * Scale, 5 * Scale}

\* the configuration of the state with another tolerance, the other
\* thresholds unchanged
WithTolerance(t) == [config EXCEPT !.copieur_tolerance = t]

\* len(similar_days) of the pair in rows i and j under a configuration
SimilarCount(cfg, i, j) ==
    Len(PairScan(df, cfg, df.index[i], df.index[j]).similar_days)

\* the pair in rows i and j is among the results of a run
ReportedIn(findings, i, j) ==
    \E n \in 1..Len(findings) :
        {findings[n].student_id, findings[n].details.partner}
            = {df.index[i], df.index[j]}

\* C20: for every matrix, every pair of students and every tolerance t2 at
\* least the tolerance t1 of the run, with copieur_min_days and
\* copieur_min_ratio unchanged, the pair's similar-day count under t2 is at
\* least its count under t1, and a pair flagged under t1 is flagged under t2.
C20_MonotoneInTolerance ==
    After("detect_copieurs")
    => \A t2 \in Tolerances :
          t2 >= config.copieur_tolerance
          => \A i \in Positions : \A j \in Positions :
                i < j
                => /\ SimilarCount(WithTolerance(t2), i, j)
                         >= SimilarCount(config, i, j)
                   /\ ReportedIn(ret.findings, i, j)
                      => ReportedIn(DetectCopieursResult(df, WithTolerance(t2)), i, j)

\* a run that flags one pair and not another, which a larger tolerance gives
\* more similar days and flags
C20_Witness ==
    /\ After("detect_copieurs")
    /\ \E i \in Positions : \E j \in Positions : i < j /\ ReportedIn(ret.findings, i, j)
    /\ \E t2 \in Tolerances : \E i \in Positions : \E j \in Positions :
          /\ i < j
          /\ t2 > config.copieur_tolerance
          /\ SimilarCount(WithTolerance(t2), i, j) > SimilarCount(config, i, j)
          /\ ~ReportedIn(ret.findings, i, j)
          /\ ReportedIn(DetectCopieursResult(df, WithTolerance(t2)), i, j)

\* the number of the student's findings of one type in self.results
FindingsOf(student, type) ==
    Count(results, LAMBDA f : f.student_id = student /\ f.suspicion_type = type)

\* C26: whatever the configuration, copieur_min_days of 3 or less included,
\* the points calculate_suspicion_scores adds for one pair-similarity finding
\* lie between the base of 4 and the maximum of 9, so a student's
\* pair-similarity sub-score lies between 4 and 9 times the number of the
\* student's pair-similarity findings.
C26_PairPointsBetweenFourAndNine ==
    After("calculate_suspicion_scores")
    => \A r \in Rows :
          /\ ret.table[r].copieurs
                >= 4 * Scale * FindingsOf(ret.table[r].student, COPIEUR)
          /\ ret.table[r].copieurs
                <= 9 * Scale * FindingsOf(ret.table[r].student, COPIEUR)

\* the same bounds where every pair-similarity finding has at least 3
\* similar days
C26_PairPointsBetweenFourAndNineFromThreeDays ==
    (After("calculate_suspicion_scores")
        /\ \A n \in 1..Len(results) :
              results[n].suspicion_type = COPIEUR => results[n].details.similar_days >= 3)
    => \A r \in Rows :
          /\ ret.table[r].copieurs
                >= 4 * Scale * FindingsOf(ret.table[r].student, COPIEUR)
          /\ ret.table[r].copieurs
                <= 9 * Scale * FindingsOf(ret.table[r].student, COPIEUR)

RECURSIVE Increasing(_)
Increasing(s) == Len(s) < 2 \/ (s[1] < s[2] /\ Increasing(Tail(s)))

\* C29: with copieur_min_days >= 1, every pair-similarity finding has
\* 1 <= max_consecutive <= similar_days <= number of days,
\* ratio = similar_days / number of days with 0 < ratio <= 1, and a list of
\* similar days in chronological column order of length similar_days.
C29_PairFindingWellFormed ==
    (After("detect_copieurs") /\ config.copieur_min_days >= 1)
    => \A n \in 1..Len(ret.findings) :
          LET f == ret.findings[n].details
          IN  /\ 1 <= f.max_consecutive
              /\ f.max_consecutive <= f.similar_days
              /\ f.similar_days <= df.ncols
              /\ f.ratio = [num |-> f.similar_days, den |-> df.ncols]
              /\ 0 < f.ratio.num /\ f.ratio.num <= f.ratio.den
              /\ Len(f.days) = f.similar_days
              /\ Increasing(f.days)
              /\ Range(f.days) \subseteq Days

\* a finding with a run shorter than its similar days, which are not all the
\* days
C29_Witness ==
    /\ After("detect_copieurs")
    /\ config.copieur_min_days >= 1
    /\ \E n \in 1..Len(ret.findings) :
          /\ ret.findings[n].details.max_consecutive
                < ret.findings[n].details.similar_days
          /\ ret.findings[n].details.similar_days < df.ncols

\* the operations that run the whole pipeline
PipelineOps == {"detect_all", "calculate_suspicion_scores"}

\* the raw scores of the student's findings in self.results
RawScores(student) ==
    [n \in 1..Len(results) |->
        IF results[n].student_id = student THEN results[n].score ELSE 0]

\* the value get_student_score must return: 0.0 without finding, else the
\* mean of the raw scores
IsMeanOfRawScores(value, student) ==
    LET count == Count(results, LAMBDA f : f.student_id = student)
    IN  IF count = 0 THEN value.sum = 0
        ELSE value.sum * count = SumSeq(RawScores(student)) * value.n

\* C27: self.results is empty until the first detect_all or
\* calculate_suspicion_scores and changes in no other call; what a complete
\* detect_all returns is what it leaves in self.results; so
\* get_student_score(s) is 0.0 before the first detect_all and afterwards
\* the mean of the raw scores of the findings of s from the most recent one.
C27_ResultsChangeOnlyInDetectAll ==
    /\ results = <<>>
    /\ [][ret'.op \notin PipelineOps => results' = results]_vars
    /\ [](After("detect_all") => results = ret.findings)
    /\ [](~ties.results.set => results = <<>>)
    /\ [](After("get_student_score")
            => /\ IsMeanOfRawScores(ret.value, ret.args.student_id)
               /\ (~ties.results.set => ret.value.sum = 0))

\* get_student_score of a student with two findings of different raw scores,
\* asked after another detector was called on its own
C27_Witness ==
    /\ After("get_student_score")
    /\ ret.value.n = 2
    /\ \E a \in 1..Len(results) : \E b \in 1..Len(results) :
          /\ results[a].student_id = ret.args.student_id
          /\ results[b].student_id = ret.args.student_id
          /\ results[a].score # results[b].score

\* get_student_score before any detect_all, on a matrix that has findings
C27_WitnessBefore ==
    /\ After("get_student_score")
    /\ ~ties.results.set
    /\ DetectCopieursResult(df, config) # <<>>
    /\ ret.args.student_id \in Range(df.index)

\* C21: every complete run of detect_all leaves in self.results, and
\* returns, the list the first run gave, and every complete run of
\* calculate_suspicion_scores returns the table the first one gave, whatever
\* was called in between; that list is the one a new engine on the same
\* matrix and configuration computes, so nothing accumulates.
C21_PipelineIsIdempotent ==
    /\ [](ties.results.set
            => /\ ties.collectives.set
               /\ ties.results.val
                     = SortByScore(Extended(df, config, ties.collectives.val)))
    /\ [](After("detect_all")
            => ret.findings = ties.results.val /\ results = ties.results.val)
    /\ [](After("calculate_suspicion_scores")
            => ret.table = ties.table.val /\ results = ties.results.val)
    /\ [][/\ ties.results.set => ties'.results = ties.results
          /\ ties.table.set => ties'.table = ties.table
          /\ ties.collectives.set => ties'.collectives = ties.collectives]_vars
    /\ [][(ret.op \in PipelineOps /\ ret'.op = ret.op)
             => (ret'.findings = ret.findings /\ ret'.table = ret.table)]_vars

\* a second run of the pipeline on an engine whose list holds findings
C21_Witness ==
    /\ After("detect_all")
    /\ ties.table.set
    /\ Len(results) >= 2
    /\ ret.findings = results

(***************************************************************************)
(* The other compatibility wrappers of detection.py and the functions of   *)
(* the same names in dashboard.py.  The call's arguments are the           *)
(* thresholds of the configuration in the state; a threshold the function  *)
(* has no argument for keeps the default of DetectionConfig() in the       *)
(* wrapper and its hard-coded value in dashboard.py.                       *)
(***************************************************************************)
\* DetectionConfig(pic_seuil_haut=seuil_haut, pic_seuil_bas=seuil_bas,
\*                 pic_fenetre=fenetre)
WrapperPicConfig(seuil_haut, seuil_bas, fenetre) ==
    [DetectionConfig EXCEPT !.pic_seuil_haut = seuil_haut,
                            !.pic_seuil_bas = seuil_bas,
                            !.pic_fenetre = fenetre]

\* the row of a peak; the legacy contexte prints the score in bold
PicRow(r, bold) ==
    [etudiant |-> r.student_id,
     jour |-> r.details.day,
     score |-> r.details.score,
     moyenne_avant |-> r.details.moyenne_avant,
     moyenne_apres |-> r.details.moyenne_apres,
     contexte |-> [bold |-> bold,
                   text |-> <<FormatMean(r.details.moyenne_avant),
                              FormatScore(r.details.score),
                              FormatMean(r.details.moyenne_apres)>>]]

PicRows(rs, bold) == [k \in 1..Len(rs) |-> PicRow(rs[k], bold)]

\* detect_pics_isoles(df, seuil_haut, seuil_bas, fenetre) of detection.py
compat_detect_pics_isoles ==
    LET cfg == WrapperPicConfig(config.pic_seuil_haut, config.pic_seuil_bas,
                                config.pic_fenetre)
    IN  /\ ret' = ReturnedTable("compat_detect_pics_isoles",
                                PicRows(DetectPicsIsolesResult(df, cfg), FALSE))
        /\ UNCHANGED <<df, config, results, ties, outside>>

\* detect_pics_isoles of dashboard.py: the two loops, the test on the score
\* and the two means are the same statements as the engine's
DashboardPics(d, seuil_haut, seuil_bas, fenetre) ==
    PicRows(PicsLoop(d, WrapperPicConfig(seuil_haut, seuil_bas, fenetre), 1), TRUE)

dashboard_detect_pics_isoles ==
    /\ ret' = ReturnedTable("dashboard_detect_pics_isoles",
                            DashboardPics(df, config.pic_seuil_haut,
                                          config.pic_seuil_bas, config.pic_fenetre))
    /\ UNCHANGED <<df, config, results, ties, outside>>

\* DetectionConfig(montagne_seuil_variation=seuil_variation)
WrapperMontagneConfig(seuil_variation) ==
    [DetectionConfig EXCEPT !.montagne_seuil_variation = seuil_variation]

MontagneRow(student, alternances, details) ==
    [etudiant |-> student,
     alternances |-> alternances,
     pattern |-> "Montagnes russes",
     details |-> details]

MontagneRows(rs) ==
    [k \in 1..Len(rs) |-> MontagneRow(rs[k].student_id, rs[k].details.alternances,
                                      rs[k].details.patterns)]

\* detect_montagnes_russes(df, seuil_variation) of detection.py
compat_detect_montagnes_russes ==
    LET cfg == WrapperMontagneConfig(config.montagne_seuil_variation)
    IN  /\ ret' = ReturnedTable("compat_detect_montagnes_russes",
                                MontagneRows(DetectMontagnesRussesResult(df, cfg)))
        /\ UNCHANGED <<df, config, results, ties, outside>>

\* the alternances dashboard.py requires
DashboardMinAlternances == 3

\* details.append(f"{columns[i-2]}→{columns[i-1]}→{columns[i]}")
DashboardDetails(scores, cfg) ==
    LET jours == DetailsJours(scores, 1, cfg)
    IN  [k \in 1..Len(jours) |-> <<jours[k].from, jours[k].middle, jours[k].to>>]

\* detect_montagnes_russes of dashboard.py: the count of the alternances is
\* the same statements as the engine's
RECURSIVE DashboardMontagnes(_, _, _)
DashboardMontagnes(d, seuil_variation, k) ==
    LET cfg == WrapperMontagneConfig(seuil_variation)
    IN  IF k > NStudents(d) THEN <<>>
        ELSE (IF Alternances(d.rows[k], cfg) >= DashboardMinAlternances
              THEN <<MontagneRow(d.index[k], Alternances(d.rows[k], cfg),
                                 Take(DashboardDetails(d.rows[k], cfg), 3))>>
              ELSE <<>>)
             \o DashboardMontagnes(d, seuil_variation, k + 1)

dashboard_detect_montagnes_russes ==
    /\ ret' = ReturnedTable("dashboard_detect_montagnes_russes",
                            DashboardMontagnes(df, config.montagne_seuil_variation, 1))
    /\ UNCHANGED <<df, config, results, ties, outside>>

\* DetectionConfig(collectif_tolerance=tolerance, collectif_min_eleves=min_eleves,
\*                 collectif_min_jours=min_jours)
WrapperCollectifConfig(tolerance, min_eleves, min_jours) ==
    [DetectionConfig EXCEPT !.collectif_tolerance = tolerance,
                            !.collectif_min_eleves = min_eleves,
                            !.collectif_min_jours = min_jours]

\* the row of a cluster; score is in tenths of a point, eleves the names
\* joined: the first five, and '...' when there are more
ClusterRow(jour, score, nb_eleves, eleves) ==
    [jour |-> jour,
     score |-> score,
     nb_eleves |-> nb_eleves,
     eleves |-> [names |-> Take(eleves, 5), more |-> Len(eleves) > 5]]

\* clusters, keyed by day in insertion order: the first result of a day makes
\* the entry, a later result of that day adds its student to it
RECURSIVE WrapperClusters(_, _, _)
WrapperClusters(rs, n, clusters) ==
    IF n > Len(rs) THEN clusters
    ELSE LET r == rs[n]
             at == {k \in 1..Len(clusters) : clusters[k].jour = r.details.day}
         IN  WrapperClusters(rs, n + 1,
                 IF at = {}
                 THEN Append(clusters, [jour |-> r.details.day,
                                        score |-> r.details.score * 10,
                                        nb_eleves |-> r.details.cluster_size,
                                        eleves |-> <<r.student_id>>])
                 ELSE LET k == CHOOSE k \in at : TRUE
                      IN  [clusters EXCEPT ![k].eleves = Append(@, r.student_id)])

WrapperClusterRows(rs) ==
    LET clusters == WrapperClusters(rs, 1, <<>>)
    IN  [k \in 1..Len(clusters) |->
            ClusterRow(clusters[k].jour, clusters[k].score,
                       clusters[k].nb_eleves, clusters[k].eleves)]

\* detect_copies_collectives(df, tolerance, min_eleves, min_jours) of detection.py
compat_detect_copies_collectives ==
    LET cfg == WrapperCollectifConfig(config.collectif_tolerance,
                                      config.collectif_min_eleves,
                                      config.collectif_min_jours)
    IN  /\ \E c \in DetectCopiesCollectivesResults(df, cfg) :
              /\ Allows(ties.collectives, c)
              /\ ties' = [ties EXCEPT !.collectives = Fixed(c)]
              /\ ret' = ReturnedTable("compat_detect_copies_collectives",
                                      WrapperClusterRows(c))
        /\ UNCHANGED <<df, config, results, outside>>

\* Series.round(1) of one cell, in tenths of a point
Round1(x) == IF IsNaN(x) THEN NaN ELSE RoundHalfEven(x * 10, Scale)

\* rounded = day_scores.round(1) if tolerance == 0 else day_scores.round(0),
\* in tenths of a point
DashboardRounded(d, day, tolerance) ==
    [i \in 1..NStudents(d) |->
        IF tolerance = 0 THEN Round1(Column(d, day)[i])
        ELSE IF IsNaN(Column(d, day)[i]) THEN NaN
        ELSE Round0(Column(d, day)[i]) * 10]

DashboardValueCount(d, day, tolerance, score) ==
    Cardinality({i \in 1..NStudents(d) : DashboardRounded(d, day, tolerance)[i] = score})

\* the rounded scores of the day whose count reaches min_eleves
DashboardBuckets(d, day, tolerance, min_eleves) ==
    {score \in {DashboardRounded(d, day, tolerance)[i] : i \in 1..NStudents(d)} \ {NaN} :
        DashboardValueCount(d, day, tolerance, score) >= min_eleves}

\* eleves = day_scores[rounded == score].index.tolist()
DashboardEleves(d, day, tolerance, score) ==
    LET rows == SelectSeq([i \in 1..NStudents(d) |-> i],
                          LAMBDA i : DashboardRounded(d, day, tolerance)[i] = score)
    IN  [k \in 1..Len(rows) |-> d.index[rows[k]]]

\* value_counts().items(): by decreasing count, equal counts in any order
RECURSIVE DashboardBucketOrders(_, _, _, _)
DashboardBucketOrders(d, day, tolerance, todo) ==
    IF todo = {} THEN {<<>>}
    ELSE LET top == {b \in todo : \A c \in todo :
                        DashboardValueCount(d, day, tolerance, b)
                            >= DashboardValueCount(d, day, tolerance, c)}
         IN  UNION {{<<b>> \o rest :
                        rest \in DashboardBucketOrders(d, day, tolerance, todo \ {b})} :
                    b \in top}

\* the rows appended for one day, for one order of its buckets
DashboardDayRows(d, day, tolerance, order) ==
    [k \in 1..Len(order) |->
        ClusterRow(day, order[k], DashboardValueCount(d, day, tolerance, order[k]),
                   DashboardEleves(d, day, tolerance, order[k]))]

\* for day in df.columns: every table the run can end with
RECURSIVE DashboardClusters(_, _, _, _)
DashboardClusters(d, tolerance, min_eleves, day) ==
    IF day > d.ncols THEN {<<>>}
    ELSE {DashboardDayRows(d, day, tolerance, order) \o rest :
            order \in DashboardBucketOrders(d, day, tolerance,
                          DashboardBuckets(d, day, tolerance, min_eleves)),
            rest \in DashboardClusters(d, tolerance, min_eleves, day + 1)}

\* detect_copies_collectives(df, tolerance, min_eleves, min_jours) of dashboard.py
dashboard_detect_copies_collectives ==
    /\ \E t \in DashboardClusters(df, config.collectif_tolerance,
                                  config.collectif_min_eleves, 1) :
          ret' = ReturnedTable("dashboard_detect_copies_collectives", t)
    /\ UNCHANGED <<df, config, results, ties, outside>>

\* the thresholds the functions are called with
CompatConfigs ==
    EngineConfigs \cup {[Loose EXCEPT !.collectif_tolerance = 1 * Scale]}

NextCompat ==
    \/ compat_detect_copieurs
    \/ dashboard_detect_copieurs
    \/ compat_detect_pics_isoles
    \/ dashboard_detect_pics_isoles
    \/ compat_detect_montagnes_russes
    \/ dashboard_detect_montagnes_russes
    \/ compat_detect_copies_collectives
    \/ dashboard_detect_copies_collectives

\* the matrices the functions are called on: mixed_data, whose days have
\* three scores of equal count each, is left to the engine's specifications
CompatMatrices == SessionMatrices \cup (Fixtures \ {mixed_data})

SpecCompat ==
    Engine(CompatMatrices, CompatConfigs) /\ [][NextCompat]_vars

(***************************************************************************)
(* C24                                                                     *)
(***************************************************************************)
\* what a table of pairs, peaks, oscillating students or clusters reports
PairsOf(table) ==
    {<<{table[k].etudiant_1, table[k].etudiant_2}, table[k].jours_similaires>> :
        k \in 1..Len(table)}

PeaksOf(table) == {<<table[k].etudiant, table[k].jour>> : k \in 1..Len(table)}

OscillatingOf(table) ==
    {<<table[k].etudiant, table[k].alternances>> : k \in 1..Len(table)}

ClustersOf(table) ==
    {<<table[k].jour, table[k].score, table[k].nb_eleves>> : k \in 1..Len(table)}

\* the tables dashboard.py can return for the arguments in the state
LegacyClusterTables ==
    DashboardClusters(df, config.collectif_tolerance, config.collectif_min_eleves, 1)

\* C24: every compatibility wrapper of detection.py reports what the function
\* of the same name in dashboard.py reports for the same matrix and
\* arguments: the same flagged pairs, the same peaks, the same oscillating
\* students, and one row per cluster with the same day, score bucket and
\* member count.
C24_WrappersReportWhatLegacyReports ==
    /\ After("compat_detect_copieurs")
          => PairsOf(ret.table)
               = PairsOf(DashboardPairsLoop(df, config.copieur_tolerance,
                             config.copieur_min_days, config.copieur_min_ratio, 1, 2))
    /\ After("compat_detect_pics_isoles")
          => PeaksOf(ret.table)
               = PeaksOf(DashboardPics(df, config.pic_seuil_haut,
                                       config.pic_seuil_bas, config.pic_fenetre))
    /\ After("compat_detect_montagnes_russes")
          => OscillatingOf(ret.table)
               = OscillatingOf(DashboardMontagnes(df, config.montagne_seuil_variation, 1))
    /\ After("compat_detect_copies_collectives")
          => /\ \E t \in LegacyClusterTables : ClustersOf(ret.table) = ClustersOf(t)
             /\ \E t \in LegacyClusterTables : Len(ret.table) = Len(t)

(***************************************************************************)
(* find_activity_id of hermes_api.py and ActivitiesAPI.find_activity_id    *)
(***************************************************************************)
\* An activity is a dict decoded from JSON: a key can be absent, or hold null.
\* Absent and Null stand for these two among the slugs; None is Python's
\* None among the ids, which is also what get('id') gives without the key.
Absent == "<absent>"
Null == "<null>"
None == 0

MaxActivities == 2

ActivityIds == {123, 456}

Slugs == {"", "databootcampd01", "databootcampd02"}

\* the day slugs asked for
DaySlugs == {"", "databootcampd01", "nonexistent"}

\* the value of the key projectTemplate: no key, null, or a dict
ProjectTemplates ==
    {[kind |-> "absent", slug |-> Absent], [kind |-> "null", slug |-> Absent]}
    \cup {[kind |-> "dict", slug |-> s] : s \in Slugs \cup {Absent, Null}}

Activities ==
    {[id |-> i, projectTemplate |-> t] :
        i \in ActivityIds \cup {None}, t \in ProjectTemplates}

ActivityLists == UNION {[1..n -> Activities] : n \in 0..MaxActivities}

\* a call's outcome: the value returned, or the exception
ApiReturn(value) == [raised |-> FALSE, value |-> value]

ApiRaise == [raised |-> TRUE, value |-> None]

\* activity.get('projectTemplate', {}).get('slug', ''): the default stands in
\* for an absent key only
SlugOf(template) == IF template.slug = Absent THEN "" ELSE template.slug

\* for activity in activities: the body, from position k
RECURSIVE FindFrom(_, _, _)
FindFrom(activities, day_slug, k) ==
    IF k > Len(activities) THEN ApiReturn(None)
    ELSE IF activities[k].projectTemplate.kind = "null"
         THEN ApiRaise  \* AttributeError: None has no attribute get
    ELSE IF SlugOf(activities[k].projectTemplate) = day_slug
         THEN ApiReturn(activities[k].id)
    ELSE FindFrom(activities, day_slug, k + 1)

FindActivityId(activities, day_slug) == FindFrom(activities, day_slug, 1)

\* the engine is not involved
NoEngine ==
    /\ df = [index |-> <<>>, ncols |-> 0, rows |-> <<>>]
    /\ config = DetectionConfig
    /\ results = <<>>
    /\ ret = Returned("__init__", <<>>)
    /\ ties = [collectives |-> Unset, table |-> Unset, results |-> Unset]
    /\ engines = <<>>
    /\ calls = <<>>

InitActivities ==
    /\ NoEngine
    /\ files = {}
    /\ now = 0
    /\ api \in {[op |-> "none", activities |-> a, day_slug |-> s, out |-> ApiReturn(None)] :
                  a \in ActivityLists, s \in DaySlugs}

\* find_activity_id(activities, day_slug) of hermes_api.py
find_activity_id ==
    /\ api' = [api EXCEPT !.op = "find_activity_id",
                          !.out = FindActivityId(api.activities, api.day_slug)]
    /\ UNCHANGED <<engine, engines, calls, files, now>>

\* ActivitiesAPI.find_activity_id(activities, day_slug)
ActivitiesAPI_find_activity_id ==
    /\ api' = [api EXCEPT !.op = "ActivitiesAPI.find_activity_id",
                          !.out = FindActivityId(api.activities, api.day_slug)]
    /\ UNCHANGED <<engine, engines, calls, files, now>>

NextActivities == find_activity_id \/ ActivitiesAPI_find_activity_id

SpecActivities == InitActivities /\ [][NextActivities]_vars

(***************************************************************************)
(* C25                                                                     *)
(***************************************************************************)
\* the activity has a projectTemplate with a slug, and it is day_slug
HasSlug(activity, day_slug) ==
    /\ activity.projectTemplate.kind = "dict"
    /\ activity.projectTemplate.slug \notin {Absent, Null}
    /\ activity.projectTemplate.slug = day_slug

Matching == {k \in 1..Len(api.activities) : HasSlug(api.activities[k], api.day_slug)}

FirstMatching == CHOOSE k \in Matching : \A j \in Matching : k <= j

Called == api.op # "none"

\* C25: find_activity_id returns the id of the first activity, in list order,
\* whose projectTemplate.slug is exactly day_slug, and None when no activity
\* has that slug, activities without projectTemplate or without slug included.
C25_FirstActivityWithSlug ==
    Called => /\ ~api.out.raised
              /\ api.out.value = IF Matching = {} THEN None
                                 ELSE api.activities[FirstMatching].id

\* C25, for a day slug that is not empty and activities whose projectTemplate
\* is absent or a dict
C25_FirstActivityWithSlugWellFormed ==
    (/\ Called
     /\ api.day_slug # ""
     /\ \A k \in 1..Len(api.activities) : api.activities[k].projectTemplate.kind # "null")
        => /\ ~api.out.raised
           /\ api.out.value = IF Matching = {} THEN None
                              ELSE api.activities[FirstMatching].id

(***************************************************************************)
(* APICache: one JSON file per key in the cache directory.  files is the   *)
(* set of the files of the directory, now the clock in minutes.            *)
(***************************************************************************)
\* the last minute of the clock
MaxNow == 2

\* keys are strings, as sequences of characters
CacheKeys == {<<"a", "/", "b">>, <<"a", "_", "b">>, <<"c">>}

CacheData == {"d1", "d2"}

\* max_age_minutes of a get (default 5)
MaxAges == {0, 1, 5}

\* no data: what get returns on a miss
NoData == "None"

\* key.replace('/', '_').replace('\\', '_')
SafeKey(key) == [i \in 1..Len(key) |-> IF key[i] \in {"/", "\\"} THEN "_" ELSE key[i]]

\* os.path.join(self.cache_dir, f"{safe_key}.json"), within the directory
CachePath(key) == SafeKey(key) \o <<".json">>

\* os.path.exists(cache_path)
Exists(fs, path) == \E f \in fs : f.path = path

FileAt(fs, path) == CHOOSE f \in fs : f.path = path

\* APICache.get: None without file or when age > timedelta(minutes=max_age)
CacheGet(fs, t, key, max_age_minutes) ==
    IF ~Exists(fs, CachePath(key)) THEN NoData
    ELSE IF t - FileAt(fs, CachePath(key)).timestamp > max_age_minutes THEN NoData
    ELSE FileAt(fs, CachePath(key)).data

\* APICache.set: open(cache_path, 'w') replaces the file
CacheSet(fs, t, key, data) ==
    {f \in fs : f.path # CachePath(key)}
        \cup {[path |-> CachePath(key), timestamp |-> t, data |-> data]}

\* APICache.invalidate
CacheInvalidate(fs, key) == {f \in fs : f.path # CachePath(key)}

\* APICache.clear: every file of the directory whose name ends with .json
CacheClear(fs) == {f \in fs : f.path[Len(f.path)] # ".json"}

\* what the caller did last to each key: the data and the minute of its last
\* set, unless an invalidate of the key or a clear came after it
NeverSet == [set |-> FALSE, at |-> 0, data |-> NoData]

CacheCall(op, key, max_age, out, last) ==
    [op |-> op, key |-> key, max_age |-> max_age, out |-> out, last |-> last]

InitCache ==
    /\ NoEngine
    /\ files = {}
    /\ now = 0
    /\ api = CacheCall("__init__", <<>>, 0, NoData, [k \in CacheKeys |-> NeverSet])

cache_get ==
    /\ \E key \in CacheKeys, max_age \in MaxAges :
          api' = CacheCall("get", key, max_age,
                           CacheGet(files, now, key, max_age), api.last)
    /\ UNCHANGED <<engine, engines, calls, files, now>>

cache_set ==
    /\ \E key \in CacheKeys, data \in CacheData :
          /\ files' = CacheSet(files, now, key, data)
          /\ api' = CacheCall("set", key, 0, NoData,
                        [api.last EXCEPT ![key] = [set |-> TRUE, at |-> now,
                                                   data |-> data]])
    /\ UNCHANGED <<engine, engines, calls, now>>

cache_invalidate ==
    /\ \E key \in CacheKeys :
          /\ files' = CacheInvalidate(files, key)
          /\ api' = CacheCall("invalidate", key, 0, NoData,
                              [api.last EXCEPT ![key] = NeverSet])
    /\ UNCHANGED <<engine, engines, calls, now>>

cache_clear ==
    /\ files' = CacheClear(files)
    /\ api' = CacheCall("clear", <<>>, 0, NoData, [k \in CacheKeys |-> NeverSet])
    /\ UNCHANGED <<engine, engines, calls, now>>

\* a minute passes
Tick ==
    /\ now < MaxNow
    /\ now' = now + 1
    /\ api' = CacheCall("tick", <<>>, 0, NoData, api.last)
    /\ UNCHANGED <<engine, engines, calls, files>>

NextCache ==
    \/ cache_get
    \/ cache_set
    \/ cache_invalidate
    \/ cache_clear
    \/ Tick

SpecCache == InitCache /\ [][NextCache]_vars

(***************************************************************************)
(* C30                                                                     *)
(***************************************************************************)
\* the data of the most recent set of the key, if it is there and fresh
Expected(key, max_age) ==
    IF api.last[key].set /\ now - api.last[key].at <= max_age
    THEN api.last[key].data ELSE NoData

\* C30: get(k) returns the data of the most recent set(k, ...) when that
\* entry is no older than max_age_minutes and was not removed by
\* invalidate(k) or clear(), and None otherwise; and a set or an invalidate
\* of another key never changes what get(k) returns.
C30_GetReturnsLastSetOfItsKey ==
    /\ [](api.op = "get" => api.out = Expected(api.key, api.max_age))
    /\ [][api'.op \in {"set", "invalidate"}
            => \A k \in CacheKeys \ {api'.key}, m \in MaxAges :
                  CacheGet(files', now', k, m) = CacheGet(files, now, k, m)]_vars

\* C30 for keys whose file names differ
C30_GetReturnsLastSetOfItsFile ==
    /\ [](\A k \in CacheKeys :
             (\A j \in CacheKeys \ {k} : CachePath(j) # CachePath(k))
                => \A m \in MaxAges : CacheGet(files, now, k, m) = Expected(k, m))
    /\ [][api'.op \in {"set", "invalidate"}
            => \A k \in CacheKeys \ {api'.key}, m \in MaxAges :
                  CachePath(k) # CachePath(api'.key)
                     => CacheGet(files', now', k, m) = CacheGet(files, now, k, m)]_vars

(***************************************************************************)
(* The whole detection core: the engine's methods and the module-level     *)
(* functions, called in any order on one matrix                            *)
(***************************************************************************)
NextCore == NextSession \/ NextCompat

SpecCore == Engine(CompatMatrices, EngineConfigs) /\ [][NextCore]_vars

(***************************************************************************)
(* C22                                                                     *)
(***************************************************************************)
\* C22: no operation of the detection core changes the matrix it was given
\* (cells, row order, number and order of the columns) or the thresholds of
\* the configuration it was given.
C22_MatrixAndConfigNeverChange ==
    [][/\ df'.index = df.index
       /\ df'.ncols = df.ncols
       /\ df'.rows = df.rows
       /\ config' = config]_vars

\* the pipeline has run and filled self.results, then a wrapper has reported
\* clusters on the same matrix, which holds scores that round(0) changes
C22_Witness ==
    /\ results # <<>>
    /\ ret.op = "compat_detect_copies_collectives"
    /\ ret.table # <<>>
    /\ \E i \in Positions, day \in Days :
          ~IsNaN(Cell(i, day)) /\ Round0(Cell(i, day)) * Scale # Cell(i, day)

(***************************************************************************)
(* Concurrent passes.  Each thread runs detect_all or                      *)
(* calculate_suspicion_scores on an engine, one statement at a time; the   *)
(* threads interleave between the statements.  engines.objs holds the      *)
(* engines (config, and the list self.results refers to), engines.lists    *)
(* the list objects; calls holds each thread's call: its engine, its       *)
(* position, the list object whose extend it has looked up, and what it    *)
(* has returned.                                                           *)
(***************************************************************************)
Threads == {1, 2}

\* the matrices and thresholds the passes are run on
PassMatrices == {sample_data, pic_data, montagnes_data} \cup MatricesOf({<<2, 1>>})

PassConfigs == EngineConfigs

\* the call of a thread, before its first statement
Call(e, op) ==
    [engine |-> e, op |-> op, pc |-> "reset", k |-> 1, target |-> 0,
     raised |-> FALSE, findings |-> 0, table |-> <<>>]

\* DetectionEngine(df, config): self.results = [], a list of its own
NewEngine(cfg, list) == [config |-> cfg, results |-> list]

InitThreads ==
    /\ df \in PassMatrices
    /\ config = DetectionConfig
    /\ results = <<>>
    /\ ret = Returned("__init__", <<>>)
    /\ ties = [collectives |-> Unset, table |-> Unset, results |-> Unset]
    /\ files = {}
    /\ now = 0
    /\ api = <<>>

\* one engine per thread, with different thresholds, over the same matrix
InitPasses ==
    /\ InitThreads
    /\ engines \in {[objs |-> <<NewEngine(cs[1], 1), NewEngine(cs[2], 2)>>,
                     lists |-> <<<<>>, <<>>>>] :
                       cs \in {pair \in PassConfigs \X PassConfigs : pair[1] # pair[2]}}
    /\ calls \in {[t \in Threads |-> Call(t, op[t])] : op \in [Threads -> PipelineOps]}

\* one engine for both threads
InitSharedEngine ==
    /\ InitThreads
    /\ engines \in {[objs |-> <<NewEngine(c, 1)>>, lists |-> <<<<>>>>] :
                       c \in PassConfigs}
    /\ calls \in {[t \in Threads |-> Call(1, op[t])] : op \in [Threads -> PipelineOps]}

Self(t) == engines.objs[calls[t].engine]

Moved(t, call) ==
    /\ calls' = [calls EXCEPT ![t] = call]
    /\ UNCHANGED <<engine, files, now, api>>

\* self.results = [] with one list shared by all the engines
reset_results_shared(t) ==
    /\ calls[t].pc = "reset"
    /\ engines' = [engines EXCEPT !.objs[calls[t].engine].results = 1,
                                  !.lists[1] = <<>>]
    /\ Moved(t, [calls[t] EXCEPT !.pc = "load"])

\* self.results = []: a new list object
reset_results(t) ==
    /\ calls[t].pc = "reset"
    /\ engines' = [engines EXCEPT !.objs[calls[t].engine].results = Len(engines.lists) + 1,
                                  !.lists = Append(@, <<>>)]
    /\ Moved(t, [calls[t] EXCEPT !.pc = "load"])

\* self.results.extend: the attribute is read before the detector is called
load_results(t) ==
    /\ calls[t].pc = "load"
    /\ UNCHANGED engines
    /\ Moved(t, [calls[t] EXCEPT !.pc = "extend", !.target = Self(t).results])

\* what the k-th detector of detect_all can return
DetectorResults(k, d, cfg) ==
    CASE k = 1 -> {DetectCopieursResult(d, cfg)}
      [] k = 2 -> {DetectPicsIsolesResult(d, cfg)}
      [] k = 3 -> {DetectMontagnesRussesResult(d, cfg)}
      [] k = 4 -> DetectCopiesCollectivesResults(d, cfg)

\* the detector runs, then extend() adds its results to the list looked up
extend_results(t) ==
    /\ calls[t].pc = "extend"
    /\ IF calls[t].k = 1 /\ CopieursRaises(df)
       THEN /\ UNCHANGED engines
            /\ Moved(t, [calls[t] EXCEPT !.pc = "done", !.raised = TRUE])
       ELSE \E found \in DetectorResults(calls[t].k, df, Self(t).config) :
               /\ engines' = [engines EXCEPT !.lists[calls[t].target] = @ \o found]
               /\ Moved(t, IF calls[t].k = 4
                           THEN [calls[t] EXCEPT !.pc = "sort"]
                           ELSE [calls[t] EXCEPT !.pc = "load", !.k = @ + 1])

\* self.results.sort(key=lambda x: x.score, reverse=True)
sort_results(t) ==
    /\ calls[t].pc = "sort"
    /\ engines' = [engines EXCEPT !.lists[Self(t).results] = SortByScore(@)]
    /\ Moved(t, [calls[t] EXCEPT !.pc = "return"])

\* return self.results: the list object, not a copy
return_results(t) ==
    /\ calls[t].pc = "return"
    /\ UNCHANGED engines
    /\ Moved(t, [calls[t] EXCEPT !.findings = Self(t).results,
                                 !.pc = IF calls[t].op = "detect_all"
                                        THEN "done" ELSE "aggregate"])

\* for result in self.results: ... return result_df
aggregate_scores(t) ==
    /\ calls[t].pc = "aggregate"
    /\ UNCHANGED engines
    /\ \E table \in SuspicionTables(engines.lists[Self(t).results]) :
          Moved(t, [calls[t] EXCEPT !.table = table, !.pc = "done"])

NextPasses ==
    \E t \in Threads :
        \/ reset_results(t)
        \/ load_results(t)
        \/ extend_results(t)
        \/ sort_results(t)
        \/ return_results(t)
        \/ aggregate_scores(t)

SpecPasses == InitPasses /\ [][NextPasses]_vars

SpecSharedEngine == InitSharedEngine /\ [][NextPasses]_vars

(***************************************************************************)
(* C23                                                                     *)
(***************************************************************************)
Done(t) == calls[t].pc = "done" /\ ~calls[t].raised

\* what the call of thread t has returned is what a call run alone, on an
\* engine with the same thresholds, can return
ReturnsAsAlone(t) ==
    IF calls[t].op = "detect_all"
    THEN engines.lists[calls[t].findings] \in DetectAllResults(df, Self(t).config)
    ELSE \E alone \in DetectAllResults(df, Self(t).config) :
            calls[t].table \in SuspicionTables(alone)

\* C23: passes with different thresholds that run concurrently over one
\* matrix, each on its own engine, share no list of findings, and under
\* every interleaving each returns the findings and the table it returns
\* when it runs alone.
C23_PassesDoNotInterfere ==
    /\ \A t \in Threads : Done(t) => ReturnsAsAlone(t)
    /\ \A t \in Threads : \A u \in Threads \ {t} :
          /\ Self(t).results # Self(u).results
          /\ calls[t].pc = "extend" => calls[t].target # Self(u).results

\* both passes have returned, with findings, and the two lists differ
C23_Witness ==
    /\ \A t \in Threads : Done(t)
    /\ \A t \in Threads : engines.lists[Self(t).results] # <<>>
    /\ engines.lists[Self(1).results] # engines.lists[Self(2).results]
    /\ \E t \in Threads : calls[t].op = "calculate_suspicion_scores"
                            /\ calls[t].table # <<>>

(***************************************************************************)
(* C28                                                                     *)
(***************************************************************************)
\* C28: when two calls of detect_all or calculate_suspicion_scores run
\* concurrently on one engine, after both have returned self.results holds
\* the findings of one pass, each exactly once, and each call has returned
\* what a call run alone returns.
C28_SharedEngineKeepsOnePass ==
    (\A t \in Threads : Done(t))
        => /\ engines.lists[engines.objs[1].results]
                 \in DetectAllResults(df, engines.objs[1].config)
           /\ \A t \in Threads : ReturnsAsAlone(t)

====
